---- MODULE Spec2Model ----
(***************************************************************************)
(* A model of terrapane/netutil's DataBuffer (src/src/data_buffer.cpp) and *)
(* of the variable-width integer codec VarIntDataBuffer layered on it      *)
(* (src/src/varint_data_buffer.cpp).                                       *)
(*                                                                         *)
(* Representation.                                                         *)
(*  - An octet is an integer 0..255.                                       *)
(*  - A machine word (uint16/32/64, int64, ...) is the set of the          *)
(*    positions of its 1 bits, bit 0 being the least significant: 0 is {}, *)
(*    128 is {7}, the int64 -1 is 0..63.  Shifts, masks and ors are then   *)
(*    exact at the full 64-bit width.                                      *)
(*  - A std::size_t is kept modulo 2^64 in balanced form: a value v below  *)
(*    2^63 is the integer v, a value v from 2^63 up is v - 2^64.  So       *)
(*    SIZE_MAX is -1, machine addition is integer addition, and the        *)
(*    unsigned order is SizeGT below.                                      *)
(*  - Memory is a set of regions; a pointer is a region's number, 0 is     *)
(*    nullptr.  A DataBuffer's storage is the first buffer_size octets of  *)
(*    the region its pointer names.                                        *)
(***************************************************************************)
EXTENDS Integers, Sequences, FiniteSets, TLC

VARIABLES
    bufs,   \* the DataBuffer objects: alive flag and the five data members
    heap,   \* memory regions: how each was obtained and the octets it holds
    last,   \* the most recent call: operation, arguments, outcome, outputs
    prog    \* the calling program: its array's size, what it keeps of calls

vars == <<bufs, heap, last, prog>>

----------------------------------------------------------------------------
(* Bounds of the model *)

\* Largest storage size (octets) of an allocation or of the caller's array
\* in the program with one buffer, and in the program with two.
MaxCap == 2
PairCap == 1

\* Size of the buffer of the program that encodes and decodes.
CodecCap == 12

\* Size of the buffer of the program that streams values in and out, and
\* the largest number of values it streams.
StreamCap == 12
MaxItems == 3

\* Size of the buffer of the program that reads into narrower types.
NarrowCap == 6

----------------------------------------------------------------------------
(* Octets and machine words *)

Octet == 0..255

\* Octets an unwritten location may hold: one with the high bit clear and
\* one with it set.
Indeterminate == {0, 129}

\* The outcome "the process died" of an access outside the storage.
Crash == 0 - 1

MaxOf(S) == CHOOSE m \in S : \A x \in S : x <= m

\* The octet whose 1 bits are the members of S below 8.
OctetOf(S) ==
    LET b(i) == IF i \in S THEN 2 ^ i ELSE 0
    IN  b(0) + b(1) + b(2) + b(3) + b(4) + b(5) + b(6) + b(7)

\* The positions of the 1 bits of octet o.
BitsOf(o) == {i \in 0..7 : (o \div (2 ^ i)) % 2 = 1}

AllOnes64 == 0..63

\* value << 7 at 64 bits.
Shl7(S) == {i + 7 : i \in {j \in S : j <= 56}}

\* value >> 7 of a std::uint64_t (zeros enter at the top).
Shr7U(S) == {i - 7 : i \in {j \in S : j >= 7}}

\* value >> 7 of a std::int64_t that lets zeros enter at the top.
Shr7Logical(S) == {i - 7 : i \in {j \in S : j >= 7}}

\* value >> 7 of a std::int64_t (the sign bit is replicated).
Shr7S(S) == Shr7U(S) \cup (IF 63 \in S THEN 57..63 ELSE {})

----------------------------------------------------------------------------
(* std::size_t arithmetic *)

\* a > b as std::size_t.
SizeGT(a, b) == IF (a < 0) = (b < 0) THEN a > b ELSE a < 0

\* a >= b as std::size_t.
SizeGE(a, b) == a = b \/ SizeGT(a, b)

----------------------------------------------------------------------------
(* Access to the storage.  bytes is the sequence of octets of the region   *)
(* the buffer points into (<<>> for nullptr); index idx is a std::size_t.  *)
(* g is what an access outside the region yields in this call: Crash, or   *)
(* the octet that happens to lie there.                                    *)

InRegion(bytes, idx) == idx >= 0 /\ idx < Len(bytes)

\* buffer[idx] as an rvalue.
Fetch(bytes, idx, g) == IF InRegion(bytes, idx) THEN bytes[idx + 1] ELSE g

\* buffer[idx] = o; a store outside the region changes none of its octets.
Store(bytes, idx, o) ==
    IF InRegion(bytes, idx) THEN [bytes EXCEPT ![idx + 1] = o] ELSE bytes

\* Whether index idx lies inside a storage of cap octets.
InCap(idx, cap) == idx >= 0 /\ idx < cap

----------------------------------------------------------------------------
(* Byte order (terra/bitutil, called from data_buffer.cpp) on a            *)
(* little-endian host.  w is the width in octets.                          *)

\* A byte order conversion that leaves the word as it is.
HostByteOrder(S, w) == S

\* BitUtil::NetworkByteOrder: the octets of the word in reverse order.
NetworkByteOrder(S, w) == {8 * (w - 1 - (i \div 8)) + (i % 8) : i \in S}

\* The object representation of a w-octet word: octet k of memory (k from
\* 1) holds bits 8(k-1) .. 8(k-1)+7.
HostBytes(S, w) ==
    [k \in 1..w |-> OctetOf({i - 8 * (k - 1) : i \in {j \in S : j \div 8 = k - 1}})]

\* The word whose object representation is the octets os.
HostWord(os) ==
    UNION {{8 * (k - 1) + i : i \in BitsOf(os[k])} : k \in 1..Len(os)}

----------------------------------------------------------------------------
(* The outcome of one call on the storage: status, the region's octets     *)
(* afterwards, the octet count returned, the word and the octets read,     *)
(* and whether an octet outside [0, capacity) was accessed.                *)

Outcome(st, bytes, n, bits, octs, oob) ==
    [status |-> st, bytes |-> bytes, n |-> n, bits |-> bits, octets |-> octs,
     oob |-> oob]

Thrown(kind, bytes) == Outcome(kind, bytes, 0, {}, <<>>, FALSE)

Died(bytes) == Outcome("crash", bytes, 0, {}, <<>>, TRUE)

----------------------------------------------------------------------------
(* DataBuffer::SetValue / GetValue on the storage                          *)

\* std::copy_n(value.data(), value.size(), buffer + offset)
RECURSIVE CopyIn(_, _, _, _)
CopyIn(bytes, octs, offset, k) ==
    IF k > Len(octs) THEN bytes
    ELSE CopyIn(Store(bytes, offset + k - 1, octs[k]), octs, offset, k + 1)

\* Whether some index of offset .. offset + n - 1 lies outside the storage.
SomeOutside(offset, n, cap) ==
    \E k \in 0..(n - 1) : ~InCap(offset + k, cap)

\* SetValue of a span that refuses to write the last octet of the storage.
SetValueSpanShort(bytes, cap, octs, offset, g) ==
    IF Len(octs) = 0 THEN Outcome("ok", bytes, 0, {}, <<>>, FALSE)
    ELSE IF SizeGE(offset + Len(octs), cap) THEN Thrown("OutOfBounds", bytes)
    ELSE Outcome("ok", CopyIn(bytes, octs, offset, 1), Len(octs), {}, <<>>,
                 FALSE)

\* SetValue(std::span<const std::uint8_t>, offset)
SetValueSpan(bytes, cap, octs, offset, g) ==
    IF Len(octs) = 0 THEN Outcome("ok", bytes, 0, {}, <<>>, FALSE)
    ELSE IF SizeGT(offset + Len(octs), cap) THEN Thrown("OutOfBounds", bytes)
    ELSE IF SomeOutside(offset, Len(octs), cap) /\ g = Crash THEN Died(bytes)
    ELSE Outcome("ok", CopyIn(bytes, octs, offset, 1), Len(octs), {}, <<>>,
                 SomeOutside(offset, Len(octs), cap))

\* SetValue(std::uint8_t, offset) and SetValue(std::int8_t, offset)
SetValueOctet(bytes, cap, S, offset) ==
    IF SizeGE(offset, cap) THEN Thrown("OutOfBounds", bytes)
    ELSE Outcome("ok", Store(bytes, offset, OctetOf(S)), 1, {}, <<>>, FALSE)

\* SetValue of a 16-, 32- or 64-bit integer (w octets): byte-swap, then
\* store the object representation as a span.
SetValueWord(bytes, cap, S, w, offset, g) ==
    SetValueSpan(bytes, cap, HostBytes(NetworkByteOrder(S, w), w), offset, g)

\* SetValue of a fixed-width integer of w octets.
SetValueInt(bytes, cap, S, w, offset, g) ==
    IF w = 1 THEN SetValueOctet(bytes, cap, S, offset)
    ELSE SetValueWord(bytes, cap, S, w, offset, g)

\* std::copy_n(buffer + offset, value.size(), value.data())
CopyOut(bytes, offset, n, g) == [k \in 1..n |-> Fetch(bytes, offset + k - 1, g)]

\* GetValue(std::span<std::uint8_t>, offset); n is the span's size.
GetValueSpan(bytes, cap, n, offset, g) ==
    IF n = 0 THEN Outcome("ok", bytes, 0, {}, <<>>, FALSE)
    ELSE IF SizeGT(offset + n, cap) THEN Thrown("OutOfBounds", bytes)
    ELSE IF SomeOutside(offset, n, cap) /\ g = Crash THEN Died(bytes)
    ELSE Outcome("ok", bytes, n, {}, CopyOut(bytes, offset, n, g),
                 SomeOutside(offset, n, cap))

\* GetValue(std::uint8_t &, offset)
GetValueOctet(bytes, cap, offset) ==
    IF SizeGE(offset, cap) THEN Thrown("OutOfBounds", bytes)
    ELSE Outcome("ok", bytes, 1, BitsOf(bytes[offset + 1]),
                 <<bytes[offset + 1]>>, FALSE)

\* GetValue of a 16-, 32- or 64-bit integer without the byte-swap.
GetValueWordUnswapped(bytes, cap, w, offset, g) ==
    LET r == GetValueSpan(bytes, cap, w, offset, g)
    IN  IF r.status = "ok" THEN [r EXCEPT !.bits = HostWord(r.octets)] ELSE r

\* GetValue of a 16-, 32- or 64-bit integer: read the object
\* representation as a span, then byte-swap.
GetValueWord(bytes, cap, w, offset, g) ==
    LET r == GetValueSpan(bytes, cap, w, offset, g)
    IN  IF r.status = "ok"
        THEN [r EXCEPT !.bits = NetworkByteOrder(HostWord(r.octets), w)]
        ELSE r

\* GetValue of a fixed-width integer of w octets.
GetValueInt(bytes, cap, w, offset, g) ==
    IF w = 1 THEN GetValueOctet(bytes, cap, offset)
    ELSE GetValueWord(bytes, cap, w, offset, g)

\* operator[](index): the reference is taken, then read.
IndexRead(bytes, cap, index) ==
    IF SizeGE(index, cap) THEN Thrown("OutOfBounds", bytes)
    ELSE Outcome("ok", bytes, 1, BitsOf(bytes[index + 1]),
                 <<bytes[index + 1]>>, FALSE)

\* operator[](index) = o
IndexWrite(bytes, cap, index, o) ==
    IF SizeGE(index, cap) THEN Thrown("OutOfBounds", bytes)
    ELSE Outcome("ok", Store(bytes, index, o), 1, {}, <<>>, FALSE)

----------------------------------------------------------------------------
(* The variable-width integer codec (varint_data_buffer.cpp)               *)

\* A FindMSb that counts bit positions from 1, 0 meaning no bit is set.
FindMSbFromOne(S) == IF S = {} THEN 0 ELSE MaxOf(S) + 1

\* BitUtil::FindMSb of an unsigned word: the position of the highest 1
\* bit, 0 for the word 0.
FindMSb(S) == IF S = {} THEN 0 ELSE MaxOf(S)

\* BitUtil::FindMSb of a signed word: a negative value is complemented
\* first, so the position is that of the highest bit differing from the
\* sign.
FindMSbSigned(S) == FindMSb(IF 63 \in S THEN AllOnes64 \ S ELSE S)

\* VarUintSize that counts eight value bits to the octet.
VarUintSizeOfOctets(S) == FindMSb(S) \div 8 + 1

\* VarIntDataBuffer::VarUintSize
VarUintSize(S) == FindMSb(S) \div 7 + 1

\* VarIntSize that leaves no room for the sign bit.
VarIntSizeUnsigned(S) == FindMSbSigned(S) \div 7 + 1

\* VarIntDataBuffer::VarIntSize
VarIntSize(S) == (FindMSbSigned(S) + 1) \div 7 + 1

\* The write loop of SetValue: i runs from octets_required down to 1.
RECURSIVE EncodeLoop(_, _, _, _, _, _)
EncodeLoop(bytes, data_bits, i, octets_required, offset, signed) ==
    IF i = 0 THEN bytes
    ELSE LET septet == OctetOf({b \in data_bits : b <= 6})
             octet  == IF i # octets_required THEN septet + 128 ELSE septet
         IN  EncodeLoop(Store(bytes, offset + i - 1, octet),
                        IF signed THEN Shr7S(data_bits) ELSE Shr7U(data_bits),
                        i - 1, octets_required, offset, signed)

\* The body shared by the two SetValue overloads once the size is known.
SetValueVar(bytes, cap, S, octets_required, offset, signed, g) ==
    IF SizeGT(offset + octets_required, cap) THEN Thrown("OutOfBounds", bytes)
    ELSE IF SomeOutside(offset, octets_required, cap) /\ g = Crash
    THEN Died(bytes)
    ELSE Outcome("ok",
                 EncodeLoop(bytes, S, octets_required, octets_required,
                            offset, signed),
                 octets_required, {}, <<>>,
                 SomeOutside(offset, octets_required, cap))

\* SetValue(const VarUint64_t &, offset)
SetValueVarUint(bytes, cap, S, offset, g) ==
    SetValueVar(bytes, cap, S, VarUintSize(S), offset, FALSE, g)

\* SetValue(const VarInt64_t &, offset)
SetValueVarInt(bytes, cap, S, offset, g) ==
    SetValueVar(bytes, cap, S, VarIntSize(S), offset, TRUE, g)

\* The read loop of GetValue: octet is the octet read last (0x80 before
\* the first), total_octets the count so far, value the accumulator.
RECURSIVE DecodeLoop(_, _, _, _, _, _, _, _)
DecodeLoop(bytes, cap, offset, octet, total_octets, value, g, oob) ==
    IF octet < 128 THEN Outcome("ok", bytes, total_octets, value, <<>>, oob)
    ELSE IF total_octets + 1 = 11
    THEN [Thrown("MalformedVarint", bytes) EXCEPT !.oob = oob]
    ELSE IF SizeGT(offset + total_octets + 1, cap)
    THEN [Thrown("OutOfBounds", bytes) EXCEPT !.oob = oob]
    ELSE LET idx == offset + total_octets
             o   == Fetch(bytes, idx, g)
         IN  IF o = Crash THEN Died(bytes)
             ELSE DecodeLoop(bytes, cap, offset, o, total_octets + 1,
                             Shl7(value) \cup BitsOf(o % 128), g,
                             oob \/ ~InCap(idx, cap))

\* An unsigned decode that takes ten octets whatever the first is.
GetValueVarUintAnyLead(bytes, cap, offset, g) ==
    DecodeLoop(bytes, cap, offset, 128, 0, {}, g, FALSE)

\* GetValue(VarUint64_t &, offset)
GetValueVarUint(bytes, cap, offset, g) ==
    LET r == DecodeLoop(bytes, cap, offset, 128, 0, {}, g, FALSE)
    IN  IF r.status = "ok" /\ r.n = 10 /\ Fetch(bytes, offset, g) # 129
        THEN [Thrown("MalformedVarint", bytes) EXCEPT !.oob = r.oob]
        ELSE r

\* GetValue(VarInt64_t &, offset) that starts from the accumulator 0
\* whatever the octet at offset holds.
GetValueVarIntFromZero(bytes, cap, offset, g) ==
    IF SizeGT(offset, cap) THEN Thrown("OutOfBounds", bytes)
    ELSE LET first == Fetch(bytes, offset, g)
             r == DecodeLoop(bytes, cap, offset, 128, 0, {}, g, FALSE)
         IN  IF first = Crash THEN Died(bytes)
             ELSE IF r.status = "ok" /\ r.n = 10 /\ first # 128
                     /\ first # 255
             THEN [Thrown("MalformedVarint", bytes) EXCEPT !.oob = r.oob]
             ELSE r

\* GetValue(VarInt64_t &, offset)
GetValueVarInt(bytes, cap, offset, g) ==
    IF SizeGT(offset, cap) THEN Thrown("OutOfBounds", bytes)
    ELSE LET first == Fetch(bytes, offset, g)
             peek  == ~InCap(offset, cap)
         IN  IF first = Crash THEN Died(bytes)
             ELSE LET sign == IF 6 \in BitsOf(first) THEN AllOnes64 ELSE {}
                      r == DecodeLoop(bytes, cap, offset, 128, 0, sign, g,
                                      peek)
                  IN  IF r.status = "ok" /\ r.n = 10 /\ first # 128
                         /\ first # 255
                      THEN [Thrown("MalformedVarint", bytes) EXCEPT
                                !.oob = r.oob \/ peek]
                      ELSE [r EXCEPT !.oob = r.oob \/ peek]

----------------------------------------------------------------------------
(* Objects and memory                                                      *)

\* The DataBuffer objects of the program.
Inst == {1, 2}

\* The caller's own arrays, and the regions operator new[] hands out.
CallerRegions == {1}
HeapRegions == {2, 3}
Regions == CallerRegions \cup HeapRegions

\* DataBuffer::DataBuffer(): the member initializers.
EmptyObj ==
    [alive |-> TRUE, owns_buffer |-> FALSE, buffer |-> 0, buffer_size |-> 0,
     data_length |-> 0, read_position |-> 0]

\* Storage of an object outside its lifetime.
NoObj == [EmptyObj EXCEPT !.alive = FALSE]

FreeRegion == [kind |-> "free", bytes |-> <<>>]

\* The octets of the region pointer p names.
BytesAt(h, p) == IF p = 0 THEN <<>> ELSE h[p].bytes

\* heap with the octets of the region p names replaced.
WithBytes(h, p, bytes) == IF p = 0 THEN h ELSE [h EXCEPT ![p].bytes = bytes]

\* delete[] of region p: a region that operator new[] did not hand out, or
\* that was deleted before, is marked corrupt.
Delete(h, p) ==
    IF p = 0 THEN h
    ELSE IF h[p].kind = "new" THEN [h EXCEPT ![p] = FreeRegion]
    ELSE [h EXCEPT ![p].kind = "corrupt"]

\* FreeBuffer that leaves read_position as it is.
FreeBufferKeepingCursor(st) ==
    [obj  |-> [st.obj EXCEPT !.buffer = 0, !.owns_buffer = FALSE,
                             !.buffer_size = 0, !.data_length = 0],
     heap |-> IF st.obj.owns_buffer THEN Delete(st.heap, st.obj.buffer)
              ELSE st.heap]

\* DataBuffer::FreeBuffer on the pair st = [obj, heap].
FreeBuffer(st) ==
    [obj  |-> [st.obj EXCEPT !.buffer = 0, !.owns_buffer = FALSE,
                             !.buffer_size = 0, !.data_length = 0,
                             !.read_position = 0],
     heap |-> IF st.obj.owns_buffer THEN Delete(st.heap, st.obj.buffer)
              ELSE st.heap]

\* The region operator new[] returns.
NewRegion(h) == CHOOSE r \in HeapRegions :
                    /\ h[r].kind = "free"
                    /\ \A q \in HeapRegions : h[q].kind = "free" => r <= q

\* DataBuffer::AllocateBuffer(size); fill is what the new octets hold.
AllocateBuffer(st, size, fill) ==
    LET f == FreeBuffer(st)
    IN  IF size = 0 THEN f
        ELSE LET r == NewRegion(f.heap)
             IN  [obj  |-> [f.obj EXCEPT !.buffer = r, !.buffer_size = size,
                                         !.owns_buffer = TRUE],
                  heap |-> [f.heap EXCEPT ![r] = [kind |-> "new",
                                                  bytes |-> fill]]]

\* The values new octets may hold.
Fills(size) == {[k \in 1..size |-> o] : o \in Indeterminate}

----------------------------------------------------------------------------
(* The record of a call                                                    *)

\* op: the member function; type: the kind of value; inst: the object;
\* status: "ok", the kind of exception thrown, or "crash"; offset, size:
\* the arguments (size is the width or span length); n: the octet count
\* returned or transferred; bits, octets: the value passed in or read out;
\* oob: whether an octet outside [0, capacity) was accessed.
Call(op, type, b, st, offset, size, n, bits, octs, oob) ==
    [op |-> op, type |-> type, inst |-> b, status |-> st, offset |-> offset,
     size |-> size, n |-> n, bits |-> bits, octets |-> octs, oob |-> oob]

NoCall == Call("none", "none", 0, "ok", 0, 0, 0, {}, <<>>, FALSE)

\* What the program keeps of a call.  Of a call it watches (prog.watch) it
\* keeps the fields it names (prog.fields) and the status; of any other
\* call, only whether it returned, threw or died.
Record(c) ==
    IF c.op \in prog.watch
    THEN [f \in DOMAIN NoCall |->
            IF f \in prog.fields \cup {"status"} THEN c[f] ELSE NoCall[f]]
    ELSE [NoCall EXCEPT !.status = IF c.status \in {"ok", "crash"}
                                   THEN c.status ELSE "exception"]

\* The process runs until an access outside the storage kills it.
Running == last.status # "crash"

Alive(b) == Running /\ bufs[b].alive

\* The value of a call as the program notes it: the kind and, for a span
\* its octets, for an integer its width and word.
Item(c) ==
    [type |-> c.type,
     size |-> IF c.type \in {"span", "int"} THEN c.size ELSE 0,
     bits |-> IF c.type = "span" THEN {} ELSE c.bits,
     octets |-> IF c.type = "span" THEN c.octets ELSE <<>>]

\* The program after the call c.  A program that keeps a journal (sent,
\* got) notes each value it appended and each value it read, and starts
\* the journal over with each buffer; any other program is unchanged.
Noted(c) ==
    IF "sent" \notin DOMAIN prog THEN prog
    ELSE IF c.op \in {"DataBuffer", "~DataBuffer"}
    THEN [prog EXCEPT !.sent = <<>>, !.got = <<>>]
    ELSE IF c.op = "AppendValue" /\ c.status = "ok"
    THEN [prog EXCEPT !.sent = Append(@, Item(c))]
    ELSE IF c.op = "ReadValue" /\ c.status = "ok"
    THEN [prog EXCEPT !.got = Append(@, Item(c))]
    ELSE prog

\* The object b and the heap become obj and h, and the call is recorded.
Commit(b, obj, h, c) ==
    /\ bufs' = [bufs EXCEPT ![b] = obj]
    /\ heap' = h
    /\ last' = Record(c)
    /\ prog' = Noted(c)

----------------------------------------------------------------------------
(* Arguments the calling program passes.  prog.cap is the size of the      *)
(* program's own array and the largest size it asks for.                   *)

\* Offsets and indices: inside, at and past the end of the storage, and
\* SIZE_MAX.
Offsets == (0 - 1)..(prog.cap + 1)

\* Lengths of bound storage; lengths, positions and distances given to the
\* cursor calls, SIZE_MAX among them.
Lengths == 0..(prog.cap + 1)
Distances == (0 - 1)..(prog.cap + 1)
Sizes == 0..prog.cap

\* Byte spans written.
SpanValues == {<<>>, <<129>>, <<0, 129>>}

\* Sizes of the spans read into.
SpanSizes == {0, 1, 2}

\* Widths (octets) of the fixed-width integers, and the values written:
\* 0x00 and 0x81, 0x8100.
Widths == {1, 2}
IntValues(w) == IF w = 1 THEN {{}, {0, 7}} ELSE {{8, 15}}

\* Variable-width values written: 0 (one octet) and 128 (two octets).
VarUintValues == {{}, {7}}
VarIntValues == {{}, {7}}

\* What an access outside the region may do.
Stray == Indeterminate \cup {Crash}

\* The choices for a call at offset.  A bounds test on offset + size lets
\* a call through to the outside only when the sum wraps, which takes an
\* offset in the upper half of std::size_t.
StrayWrap(offset) == IF offset < 0 THEN Stray ELSE {0}

\* The same for the signed decode, which looks at the octet at offset
\* before its loop tests offset against the size of the storage.
StrayPeek(offset, cap) == IF offset < 0 \/ offset = cap THEN Stray ELSE {0}

----------------------------------------------------------------------------
(* Construction, destruction, rebinding                                    *)

\* A SetBuffer that leaves read_position as it is.
SetBufferKeepingCursor(st, p, size, len) ==
    LET f == FreeBufferKeepingCursor(st)
    IN  IF p = 0 THEN [obj |-> f.obj, heap |-> f.heap, status |-> "ok"]
        ELSE IF size = 0 \/ SizeGT(len, size)
        THEN [obj |-> f.obj, heap |-> f.heap, status |-> "InvalidArgument"]
        ELSE [obj |-> [f.obj EXCEPT !.buffer = p, !.buffer_size = size,
                                    !.data_length = len],
              heap |-> f.heap, status |-> "ok"]

\* SetBuffer(new_buffer, new_buffer_size, new_data_length) on [obj, heap].
SetBuffer(st, p, size, len) ==
    LET f == FreeBuffer(st)
    IN  IF p = 0 THEN [obj |-> f.obj, heap |-> f.heap, status |-> "ok"]
        ELSE IF size = 0 \/ SizeGT(len, size)
        THEN [obj |-> f.obj, heap |-> f.heap, status |-> "InvalidArgument"]
        ELSE [obj |-> [f.obj EXCEPT !.buffer = p, !.buffer_size = size,
                                    !.data_length = len],
              heap |-> f.heap, status |-> "ok"]

\* DataBuffer::DataBuffer()
Construct(b) ==
    /\ Running /\ ~bufs[b].alive
    /\ Commit(b, EmptyObj, heap,
              Call("DataBuffer", "default", b, "ok", 0, 0, 0, {}, <<>>, FALSE))

\* DataBuffer::DataBuffer(std::size_t buffer_size)
ConstructSized(b, size) ==
    /\ Running /\ ~bufs[b].alive
    /\ \E fill \in Fills(size) :
         LET a == AllocateBuffer([obj |-> EmptyObj, heap |-> heap], size, fill)
         IN  Commit(b, a.obj, a.heap,
                    Call("DataBuffer", "sized", b, "ok", 0, size, 0, {}, <<>>,
                         FALSE))

\* DataBuffer::DataBuffer(std::uint8_t *, buffer_size, data_length) and
\* DataBuffer::DataBuffer(std::span<std::uint8_t>) (len = size).  When
\* SetBuffer throws, the object never comes to life.
ConstructBound(b, p, size, len, type) ==
    /\ Running /\ ~bufs[b].alive
    /\ LET r == SetBuffer([obj |-> EmptyObj, heap |-> heap], p, size, len)
       IN  Commit(b, IF r.status = "ok" THEN r.obj ELSE NoObj, r.heap,
                  Call("DataBuffer", type, b, r.status, p, size, len, {},
                       <<>>, FALSE))

\* DataBuffer::DataBuffer(const DataBuffer &other)
CopyConstruct(b, o) ==
    /\ Running /\ ~bufs[b].alive /\ bufs[o].alive /\ o # b
    /\ LET other == bufs[o]
       IN  IF other.buffer # 0
           THEN \E fill \in Fills(other.buffer_size) :
                  LET a == AllocateBuffer([obj |-> EmptyObj, heap |-> heap],
                                          other.buffer_size, fill)
                      src == BytesAt(heap, other.buffer)
                      cp == [k \in 1..a.obj.buffer_size |-> src[k]]
                  IN  Commit(b, [a.obj EXCEPT
                                   !.data_length = other.data_length,
                                   !.read_position = other.read_position],
                             WithBytes(a.heap, a.obj.buffer, cp),
                             Call("DataBuffer", "copy", b, "ok", o, 0, 0, {},
                                  <<>>, FALSE))
           ELSE Commit(b, EmptyObj, heap,
                       Call("DataBuffer", "copy", b, "ok", o, 0, 0, {}, <<>>,
                            FALSE))

\* A transfer that leaves other its pointer and its ownership flag.
MoveFromKeeping(this, other) ==
    IF other.buffer # 0
    THEN [this  |-> [this EXCEPT !.owns_buffer = other.owns_buffer,
                                 !.buffer = other.buffer,
                                 !.buffer_size = other.buffer_size,
                                 !.data_length = other.data_length,
                                 !.read_position = other.read_position],
          other |-> [other EXCEPT !.buffer_size = 0, !.data_length = 0,
                                  !.read_position = 0]]
    ELSE [this |-> this, other |-> other]

\* The transfer shared by the move constructor and move assignment: this
\* takes other's members and other is cleared, when other has a buffer.
MoveFrom(this, other) ==
    IF other.buffer # 0
    THEN [this  |-> [this EXCEPT !.owns_buffer = other.owns_buffer,
                                 !.buffer = other.buffer,
                                 !.buffer_size = other.buffer_size,
                                 !.data_length = other.data_length,
                                 !.read_position = other.read_position],
          other |-> [other EXCEPT !.owns_buffer = FALSE, !.buffer = 0,
                                  !.buffer_size = 0, !.data_length = 0,
                                  !.read_position = 0]]
    ELSE [this |-> this, other |-> other]

\* DataBuffer::DataBuffer(DataBuffer &&other)
MoveConstruct(b, o) ==
    /\ Running /\ ~bufs[b].alive /\ bufs[o].alive /\ o # b
    /\ LET m == MoveFrom(EmptyObj, bufs[o])
       IN  /\ bufs' = [bufs EXCEPT ![b] = m.this, ![o] = m.other]
           /\ last' = Record(Call("DataBuffer", "move", b, "ok", o, 0, 0, {},
                                  <<>>, FALSE))
           /\ UNCHANGED <<heap, prog>>

\* DataBuffer::~DataBuffer()
Destroy(b) ==
    /\ Alive(b)
    /\ LET f == FreeBuffer([obj |-> bufs[b], heap |-> heap])
       IN  Commit(b, [f.obj EXCEPT !.alive = FALSE], f.heap,
                  Call("~DataBuffer", "none", b, "ok", 0, 0, 0, {}, <<>>,
                       FALSE))

\* A copy assignment that keeps the storage of this whenever it has the
\* size of other's, owned or not.
CopyAssignReusingBound(b, o) ==
    /\ Alive(b) /\ bufs[o].alive
    /\ LET this == bufs[b]
           other == bufs[o]
           c == Call("operator=", "copy", b, "ok", o, 0, 0, {}, <<>>, FALSE)
       IN  IF o = b THEN Commit(b, this, heap, c)
           ELSE \E fill \in Fills(other.buffer_size) :
             LET a == IF this.buffer_size # other.buffer_size
                      THEN AllocateBuffer([obj |-> this, heap |-> heap],
                                          other.buffer_size, fill)
                      ELSE [obj |-> this, heap |-> heap]
                 src == BytesAt(a.heap, other.buffer)
                 cp == IF other.buffer_size > 0
                       THEN [k \in 1..a.obj.buffer_size |-> src[k]]
                       ELSE BytesAt(a.heap, a.obj.buffer)
             IN  Commit(b, [a.obj EXCEPT
                              !.data_length = other.data_length,
                              !.read_position = other.read_position],
                        WithBytes(a.heap, a.obj.buffer, cp), c)

\* operator=(const DataBuffer &other)
CopyAssign(b, o) ==
    /\ Alive(b) /\ bufs[o].alive
    /\ LET this == bufs[b]
           other == bufs[o]
           c == Call("operator=", "copy", b, "ok", o, 0, 0, {}, <<>>, FALSE)
       IN  IF o = b THEN Commit(b, this, heap, c)
           ELSE \E fill \in Fills(other.buffer_size) :
             LET a == IF ~this.owns_buffer
                         \/ this.buffer_size # other.buffer_size
                      THEN AllocateBuffer([obj |-> this, heap |-> heap],
                                          other.buffer_size, fill)
                      ELSE [obj |-> this, heap |-> heap]
                 src == BytesAt(a.heap, other.buffer)
                 cp == IF other.buffer_size > 0
                       THEN [k \in 1..a.obj.buffer_size |-> src[k]]
                       ELSE BytesAt(a.heap, a.obj.buffer)
             IN  Commit(b, [a.obj EXCEPT
                              !.data_length = other.data_length,
                              !.read_position = other.read_position],
                        WithBytes(a.heap, a.obj.buffer, cp), c)

\* A move assignment that takes other's members without releasing what
\* this holds.
MoveAssignLeaking(b, o) ==
    /\ Alive(b) /\ bufs[o].alive
    /\ LET m == MoveFrom(bufs[b], bufs[o])
       IN  /\ bufs' = IF o = b THEN [bufs EXCEPT ![b] = m.other]
                      ELSE [bufs EXCEPT ![b] = m.this, ![o] = m.other]
           /\ last' = Record(Call("operator=", "move", b, "ok", o, 0, 0, {},
                                  <<>>, FALSE))
           /\ UNCHANGED <<heap, prog>>

\* operator=(DataBuffer &&other)
MoveAssign(b, o) ==
    /\ Alive(b) /\ bufs[o].alive
    /\ LET f == FreeBuffer([obj |-> bufs[b], heap |-> heap])
           src == IF o = b THEN f.obj ELSE bufs[o]
           m == MoveFrom(f.obj, src)
       IN  /\ bufs' = IF o = b THEN [bufs EXCEPT ![b] = m.other]
                      ELSE [bufs EXCEPT ![b] = m.this, ![o] = m.other]
           /\ heap' = f.heap
           /\ last' = Record(Call("operator=", "move", b, "ok", o, 0, 0, {},
                                  <<>>, FALSE))
           /\ UNCHANGED prog

\* A comparison that also wants the read positions to be the same.
OperatorEqWithCursor(this, other, h) ==
    /\ this.data_length = other.data_length
    /\ this.read_position = other.read_position
    /\ \A k \in 1..this.data_length :
          BytesAt(h, this.buffer)[k] = BytesAt(h, other.buffer)[k]

\* DataBuffer::operator==(const DataBuffer &other): std::equal over
\* [buffer, buffer + data_length).
OperatorEq(this, other, h) ==
    IF this.data_length # other.data_length THEN FALSE
    ELSE IF this.data_length = 0 THEN TRUE
    ELSE \A k \in 1..this.data_length :
            BytesAt(h, this.buffer)[k] = BytesAt(h, other.buffer)[k]

\* b == o and b != o; the call records the other operand as offset and
\* the result as n (1 for true).
Compare(b, o, negated) ==
    /\ Alive(b) /\ bufs[o].alive
    /\ LET eq == OperatorEq(bufs[b], bufs[o], heap)
       IN  Commit(b, bufs[b], heap,
                  Call(IF negated THEN "operator!=" ELSE "operator==",
                       "none", b, "ok", o, 0,
                       IF eq # negated THEN 1 ELSE 0, {}, <<>>, FALSE))

\* SetBuffer(std::uint8_t *, new_buffer_size, new_data_length) and
\* SetBuffer(std::span<std::uint8_t>) (len = size)
CallSetBuffer(b, p, size, len, type) ==
    /\ Alive(b)
    /\ LET r == SetBuffer([obj |-> bufs[b], heap |-> heap], p, size, len)
       IN  Commit(b, r.obj, r.heap,
                  Call("SetBuffer", type, b, r.status, p, size, len, {}, <<>>,
                       FALSE))

----------------------------------------------------------------------------
(* Data length and read position                                           *)

\* SetDataLength that keeps read_position when it still lies within the
\* new data_length.
SetDataLengthClamping(b, length) ==
    /\ Alive(b)
    /\ LET o == bufs[b]
           c == Call("SetDataLength", "none", b, "ok", length, 0, 0, {}, <<>>,
                     FALSE)
       IN  IF SizeGT(length, o.buffer_size)
           THEN Commit(b, o, heap, [c EXCEPT !.status = "OutOfBounds"])
           ELSE Commit(b, [o EXCEPT !.data_length = length,
                                    !.read_position =
                                        IF @ > length THEN 0 ELSE @],
                       heap, c)

\* SetDataLength(length)
SetDataLength(b, length) ==
    /\ Alive(b)
    /\ LET o == bufs[b]
           c == Call("SetDataLength", "none", b, "ok", length, 0, 0, {}, <<>>,
                     FALSE)
       IN  IF SizeGT(length, o.buffer_size)
           THEN Commit(b, o, heap, [c EXCEPT !.status = "OutOfBounds"])
           ELSE Commit(b, [o EXCEPT !.data_length = length,
                                    !.read_position = 0], heap, c)

\* SetReadPosition without its test against data_length.
SetReadPositionUnchecked(o, position) ==
    [obj |-> [o EXCEPT !.read_position = position], status |-> "ok"]

\* The body of SetReadPosition(position) on the object o.
SetReadPositionOf(o, position) ==
    IF SizeGT(position, o.data_length)
    THEN [obj |-> o, status |-> "OutOfBounds"]
    ELSE [obj |-> [o EXCEPT !.read_position = position], status |-> "ok"]

\* SetReadPosition(position)
SetReadPosition(b, position) ==
    /\ Alive(b)
    /\ LET r == SetReadPositionOf(bufs[b], position)
       IN  Commit(b, r.obj, heap,
                  Call("SetReadPosition", "none", b, r.status, position, 0, 0,
                       {}, <<>>, FALSE))

\* AdvanceReadPosition(distance)
AdvanceReadPosition(b, distance) ==
    /\ Alive(b)
    /\ LET r == SetReadPositionOf(bufs[b], bufs[b].read_position + distance)
       IN  Commit(b, r.obj, heap,
                  Call("AdvanceReadPosition", "none", b, r.status, distance,
                       0, 0, {}, <<>>, FALSE))

----------------------------------------------------------------------------
(* Calls that access the storage.  r is the Outcome of the storage         *)
(* operator on the octets of the region b's pointer names.                 *)

StorageOf(b) == BytesAt(heap, bufs[b].buffer)

CapOf(b) == bufs[b].buffer_size

\* The heap once the call's octets are in place.
Stored(b, r) == WithBytes(heap, bufs[b].buffer, r.bytes)

\* SetValue / GetValue / operator[]: the object's members are not touched.
AccessCall(b, r, op, type, offset, size, bits, octs) ==
    Commit(b, bufs[b], Stored(b, r),
           Call(op, type, b, r.status, offset, size, r.n, bits, octs, r.oob))

\* AppendValue that counts the octets before SetValue has accepted them.
AppendCallCountFirst(b, r, type, size, bits, octs) ==
    Commit(b, [bufs[b] EXCEPT !.data_length = @ + size], Stored(b, r),
           Call("AppendValue", type, b, r.status, bufs[b].data_length, size,
                r.n, bits, octs, r.oob))

\* AppendValue: SetValue at data_length, then data_length += size.
AppendCall(b, r, type, size, bits, octs) ==
    Commit(b,
           IF r.status = "ok"
           THEN [bufs[b] EXCEPT !.data_length = @ + size]
           ELSE bufs[b],
           Stored(b, r),
           Call("AppendValue", type, b, r.status, bufs[b].data_length, size,
                r.n, bits, octs, r.oob))

\* ReadValue of a fixed-size value that relies on GetValue's test against
\* the size of the storage alone.
ReadCallToCapacity(b, r, type, size) ==
    LET o == bufs[b]
    IN  Commit(b,
               IF r.status = "ok" THEN [o EXCEPT !.read_position = @ + size]
               ELSE o,
               heap,
               Call("ReadValue", type, b, r.status, o.read_position, size,
                    r.n, r.bits, r.octets, r.oob))

\* ReadValue of a fixed-size value: the check against data_length, then
\* GetValue at read_position, then read_position += size.
ReadCall(b, r, type, size) ==
    LET o == bufs[b]
        c == Call("ReadValue", type, b, r.status, o.read_position, size, r.n,
                  r.bits, r.octets, r.oob)
    IN  IF SizeGT(o.read_position + size, o.data_length)
        THEN Commit(b, o, heap,
                    [c EXCEPT !.status = "OutOfBounds", !.n = 0, !.bits = {},
                              !.octets = <<>>, !.oob = FALSE])
        ELSE Commit(b,
                    IF r.status = "ok"
                    THEN [o EXCEPT !.read_position = @ + size]
                    ELSE o,
                    heap, c)

\* ReadValue of a variable-width integer: GetValue at read_position, then
\* the check of its length against data_length, then read_position +=
\* length.
ReadVarCall(b, r, type) ==
    LET o == bufs[b]
        c == Call("ReadValue", type, b, r.status, o.read_position, 0, r.n,
                  r.bits, r.octets, r.oob)
    IN  IF r.status # "ok" THEN Commit(b, o, heap, c)
        ELSE IF SizeGT(o.read_position + r.n, o.data_length)
        THEN Commit(b, o, heap, [c EXCEPT !.status = "OutOfBounds"])
        ELSE Commit(b, [o EXCEPT !.read_position = @ + r.n], heap, c)

\* SetValue(std::span<const std::uint8_t>, offset)
CallSetValueSpan(b, octs, offset, g) ==
    /\ Alive(b)
    /\ AccessCall(b, SetValueSpan(StorageOf(b), CapOf(b), octs, offset, g),
              "SetValue", "span", offset, Len(octs), {}, octs)

\* SetValue of a fixed-width integer of w octets
CallSetValueInt(b, w, S, offset, g) ==
    /\ Alive(b)
    /\ AccessCall(b, SetValueInt(StorageOf(b), CapOf(b), S, w, offset, g),
              "SetValue", "int", offset, w, S, <<>>)

\* SetValue(const VarUint64_t &, offset)
CallSetValueVarUint(b, S, offset, g) ==
    /\ Alive(b)
    /\ AccessCall(b, SetValueVarUint(StorageOf(b), CapOf(b), S, offset, g),
              "SetValue", "varuint", offset, VarUintSize(S), S, <<>>)

\* SetValue(const VarInt64_t &, offset)
CallSetValueVarInt(b, S, offset, g) ==
    /\ Alive(b)
    /\ AccessCall(b, SetValueVarInt(StorageOf(b), CapOf(b), S, offset, g),
              "SetValue", "varint", offset, VarIntSize(S), S, <<>>)

\* GetValue(std::span<std::uint8_t>, offset)
CallGetValueSpan(b, size, offset, g) ==
    /\ Alive(b)
    /\ LET r == GetValueSpan(StorageOf(b), CapOf(b), size, offset, g)
       IN  AccessCall(b, r, "GetValue", "span", offset, size, r.bits, r.octets)

\* GetValue of a fixed-width integer of w octets
CallGetValueInt(b, w, offset, g) ==
    /\ Alive(b)
    /\ LET r == GetValueInt(StorageOf(b), CapOf(b), w, offset, g)
       IN  AccessCall(b, r, "GetValue", "int", offset, w, r.bits, r.octets)

\* GetValue(VarUint64_t &, offset)
CallGetValueVarUint(b, offset, g) ==
    /\ Alive(b)
    /\ LET r == GetValueVarUint(StorageOf(b), CapOf(b), offset, g)
       IN  AccessCall(b, r, "GetValue", "varuint", offset, 0, r.bits, r.octets)

\* GetValue(VarInt64_t &, offset)
CallGetValueVarInt(b, offset, g) ==
    /\ Alive(b)
    /\ LET r == GetValueVarInt(StorageOf(b), CapOf(b), offset, g)
       IN  AccessCall(b, r, "GetValue", "varint", offset, 0, r.bits, r.octets)

\* operator[](index) read
CallIndexRead(b, index) ==
    /\ Alive(b)
    /\ LET r == IndexRead(StorageOf(b), CapOf(b), index)
       IN  AccessCall(b, r, "operator[]", "read", index, 1, r.bits, r.octets)

\* operator[](index) = o
CallIndexWrite(b, index, o) ==
    /\ Alive(b)
    /\ AccessCall(b, IndexWrite(StorageOf(b), CapOf(b), index, o),
              "operator[]", "write", index, 1, BitsOf(o), <<o>>)

\* AppendValue(std::span<const std::uint8_t>)
AppendValueSpan(b, octs, g) ==
    /\ Alive(b)
    /\ AppendCall(b, SetValueSpan(StorageOf(b), CapOf(b), octs,
                              bufs[b].data_length, g),
              "span", Len(octs), {}, octs)

\* AppendValue of a fixed-width integer of w octets
AppendValueInt(b, w, S, g) ==
    /\ Alive(b)
    /\ AppendCall(b, SetValueInt(StorageOf(b), CapOf(b), S, w,
                             bufs[b].data_length, g),
              "int", w, S, <<>>)

\* AppendValue(const VarUint64_t &)
AppendValueVarUint(b, S, g) ==
    /\ Alive(b)
    /\ LET r == SetValueVarUint(StorageOf(b), CapOf(b), S,
                                bufs[b].data_length, g)
       IN  AppendCall(b, r, "varuint", r.n, S, <<>>)

\* AppendValue(const VarInt64_t &)
AppendValueVarInt(b, S, g) ==
    /\ Alive(b)
    /\ LET r == SetValueVarInt(StorageOf(b), CapOf(b), S,
                               bufs[b].data_length, g)
       IN  AppendCall(b, r, "varint", r.n, S, <<>>)

\* ReadValue(std::span<std::uint8_t>)
ReadValueSpan(b, size, g) ==
    /\ Alive(b)
    /\ ReadCall(b, GetValueSpan(StorageOf(b), CapOf(b), size,
                            bufs[b].read_position, g), "span", size)

\* ReadValue of a fixed-width integer of w octets
ReadValueInt(b, w, g) ==
    /\ Alive(b)
    /\ ReadCall(b, GetValueInt(StorageOf(b), CapOf(b), w,
                           bufs[b].read_position, g), "int", w)

\* ReadValue(VarUint64_t &)
ReadValueVarUint(b, g) ==
    /\ Alive(b)
    /\ ReadVarCall(b, GetValueVarUint(StorageOf(b), CapOf(b),
                                  bufs[b].read_position, g), "varuint")

\* ReadValue(VarInt64_t &)
ReadValueVarInt(b, g) ==
    /\ Alive(b)
    /\ ReadVarCall(b, GetValueVarInt(StorageOf(b), CapOf(b),
                                 bufs[b].read_position, g), "varint")

\* The test against the maximum that reads every type as signed.
AboveMaxAsSigned(S, signed, w) == 63 \notin S /\ \E i \in S : i >= w - 1

\* read_value > std::numeric_limits<T::value_type>::max() for the 64-bit
\* word S and a type of w bits.
AboveMax(S, signed, w) ==
    IF signed THEN 63 \notin S /\ \E i \in S : i >= w - 1
    ELSE \E i \in S : i >= w

\* read_value < std::numeric_limits<T::value_type>::min()
BelowMin(S, signed, w) ==
    signed /\ 63 \in S /\ \E i \in (w - 1)..62 : i \notin S

\* GetValue(T &, offset) for a variable-width type T of w bits, w < 64:
\* the 64-bit GetValue, then the test of what it read against the limits
\* of T.
CallGetValueNarrow(b, signed, w, offset, g) ==
    /\ Alive(b)
    /\ LET r == IF signed
                THEN GetValueVarInt(StorageOf(b), CapOf(b), offset, g)
                ELSE GetValueVarUint(StorageOf(b), CapOf(b), offset, g)
           out == r.status = "ok" /\ (\/ AboveMax(r.bits, signed, w)
                                     \/ BelowMin(r.bits, signed, w))
       IN  AccessCall(b, IF out THEN [r EXCEPT !.status = "OutOfRange"] ELSE r,
                      "GetValue", IF signed THEN "varintN" ELSE "varuintN",
                      offset, w, r.bits, r.octets)

\* ReadValue(T &) for a variable-width type T of w bits, w < 64: the 64-bit
\* ReadValue, then the test of what it read against the limits of T.
ReadValueNarrow(b, signed, w, g) ==
    /\ Alive(b)
    /\ LET o == bufs[b]
           r == IF signed
                THEN GetValueVarInt(StorageOf(b), CapOf(b), o.read_position, g)
                ELSE GetValueVarUint(StorageOf(b), CapOf(b), o.read_position,
                                     g)
           c == Call("ReadValue", IF signed THEN "varintN" ELSE "varuintN", b,
                     r.status, o.read_position, w, r.n, r.bits, r.octets,
                     r.oob)
           read == [o EXCEPT !.read_position = @ + r.n]
       IN  IF r.status # "ok" THEN Commit(b, o, heap, c)
           ELSE IF SizeGT(o.read_position + r.n, o.data_length)
           THEN Commit(b, o, heap, [c EXCEPT !.status = "OutOfBounds"])
           ELSE IF AboveMax(r.bits, signed, w) \/ BelowMin(r.bits, signed, w)
           THEN Commit(b, read, heap, [c EXCEPT !.status = "OutOfRange"])
           ELSE Commit(b, read, heap, c)

----------------------------------------------------------------------------
(* The programs.  prog holds the size of the program's array (cap) and    *)
(* what the program keeps of its calls (watch, fields).                    *)

CallerArray(n) == [kind |-> "caller", bytes |-> [k \in 1..n |-> 0]]

InitHeap(n) == [r \in Regions |-> IF r \in CallerRegions THEN CallerArray(n)
                                  ELSE FreeRegion]

\* The pointers the caller binds a buffer to.
Pointers == {0} \cup CallerRegions

Lifecycle(b) ==
    \/ Construct(b)
    \/ \E size \in Sizes : ConstructSized(b, size)
    \/ \E p \in Pointers, size \in Sizes, len \in Lengths :
         ConstructBound(b, p, size, len, "pointer")
    \/ \E p \in Pointers, size \in Sizes :
         ConstructBound(b, p, IF p = 0 THEN 0 ELSE size,
                        IF p = 0 THEN 0 ELSE size, "span")
    \/ CopyAssign(b, b)
    \/ MoveAssign(b, b)
    \/ Destroy(b)
    \/ \E p \in Pointers, size \in Sizes, len \in Lengths :
         CallSetBuffer(b, p, size, len, "pointer")
    \/ \E p \in Pointers, size \in Sizes :
         CallSetBuffer(b, p, IF p = 0 THEN 0 ELSE size,
                       IF p = 0 THEN 0 ELSE size, "span")

Cursor(b) ==
    \/ \E n \in Distances : SetDataLength(b, n)
    \/ \E n \in Distances : SetReadPosition(b, n)
    \/ \E d \in Distances : AdvanceReadPosition(b, d)

RandomAccess(b) ==
    \/ \E octs \in SpanValues, off \in Offsets :
         \E g \in StrayWrap(off) : CallSetValueSpan(b, octs, off, g)
    \/ \E w \in Widths, off \in Offsets :
         \E S \in IntValues(w), g \in StrayWrap(off) :
            CallSetValueInt(b, w, S, off, g)
    \/ \E S \in VarUintValues, off \in Offsets :
         \E g \in StrayWrap(off) : CallSetValueVarUint(b, S, off, g)
    \/ \E S \in VarIntValues, off \in Offsets :
         \E g \in StrayWrap(off) : CallSetValueVarInt(b, S, off, g)
    \/ \E size \in SpanSizes, off \in Offsets :
         \E g \in StrayWrap(off) : CallGetValueSpan(b, size, off, g)
    \/ \E w \in Widths, off \in Offsets :
         \E g \in StrayWrap(off) : CallGetValueInt(b, w, off, g)
    \/ \E off \in Offsets :
         \E g \in StrayWrap(off) : CallGetValueVarUint(b, off, g)
    \/ \E off \in Offsets :
         \E g \in StrayPeek(off, CapOf(b)) : CallGetValueVarInt(b, off, g)
    \/ \E i \in Offsets : CallIndexRead(b, i)
    \/ \E i \in Offsets, o \in Indeterminate : CallIndexWrite(b, i, o)

\* data_length and read_position are never in the upper half of
\* std::size_t here (BoundsInvariant), so of the sequential calls only the
\* signed decode can reach outside.
Sequential(b) ==
    \/ \E octs \in SpanValues : AppendValueSpan(b, octs, 0)
    \/ \E w \in Widths : \E S \in IntValues(w) : AppendValueInt(b, w, S, 0)
    \/ \E S \in VarUintValues : AppendValueVarUint(b, S, 0)
    \/ \E S \in VarIntValues : AppendValueVarInt(b, S, 0)
    \/ \E size \in SpanSizes : ReadValueSpan(b, size, 0)
    \/ \E w \in Widths : ReadValueInt(b, w, 0)
    \/ ReadValueVarUint(b, 0)
    \/ \E g \in StrayPeek(bufs[b].read_position, CapOf(b)) :
         ReadValueVarInt(b, g)

\* Construction and assignment from another buffer.
Transfer(b, o) ==
    \/ CopyConstruct(b, o)
    \/ MoveConstruct(b, o)
    \/ b # o /\ CopyAssign(b, o)
    \/ b # o /\ MoveAssign(b, o)

\* The program with one buffer.
Next == Lifecycle(1) \/ Cursor(1) \/ RandomAccess(1) \/ Sequential(1)

\* The program with two buffers: the second is constructed, copied and
\* moved from and to the first, and destroyed.
NextPair ==
    \/ Next
    \/ Construct(2)
    \/ \E size \in Sizes : ConstructSized(2, size)
    \/ Destroy(2)
    \/ Transfer(1, 2)
    \/ Transfer(2, 1)
    \/ \E b, o \in Inst : Compare(b, o, FALSE)
    \/ \E b, o \in Inst : Compare(b, o, TRUE)

\* Every field of a call.
AllFields == DOMAIN NoCall

\* The program with one buffer, given what it keeps of its calls.
InitOne(watch, fields) ==
    /\ bufs = [b \in Inst |-> NoObj]
    /\ heap = InitHeap(MaxCap)
    /\ last = NoCall
    /\ prog = [cap |-> MaxCap, watch |-> watch, fields |-> fields]

\* The operations that change a buffer's octets or counters in place.
Mutators ==
    {"SetValue", "AppendValue", "ReadValue", "SetDataLength",
     "SetReadPosition", "AdvanceReadPosition"}

\* One buffer; the program keeps which mutator it called.
InitMutators == InitOne(Mutators, {"op"})
SpecMutators == InitMutators /\ [][Next]_vars

\* One buffer; the program keeps every detail of its ReadValue calls.
InitRead == InitOne({"ReadValue"}, AllFields)
SpecRead == InitRead /\ [][Next]_vars

\* One buffer; the program keeps every detail of its AppendValue calls.
InitAppend == InitOne({"AppendValue"}, AllFields)
SpecAppend == InitAppend /\ [][Next]_vars

\* One buffer; the program keeps where its random accesses went.
InitAccess ==
    InitOne({"SetValue", "GetValue", "operator[]"},
            {"op", "type", "offset", "size", "oob"})
SpecAccess == InitAccess /\ [][Next]_vars

\* One buffer; the program keeps where its decodes and reads went.
InitDecode ==
    InitOne({"GetValue", "ReadValue"}, {"op", "type", "offset", "oob"})
SpecDecode == InitDecode /\ [][Next]_vars

\* One buffer; the program keeps every detail of its calls that set the
\* data length and the read position.
InitCursor ==
    InitOne({"SetDataLength", "SetReadPosition", "AdvanceReadPosition"},
            AllFields)
SpecCursor == InitCursor /\ [][Next]_vars

\* One buffer; the program keeps every detail of its constructions and
\* its SetBuffer calls.
InitRebind == InitOne({"DataBuffer", "SetBuffer"}, AllFields)
SpecRebind == InitRebind /\ [][Next]_vars

\* Two buffers; the program keeps only the status of each call.
InitPair ==
    /\ bufs = [b \in Inst |-> NoObj]
    /\ heap = InitHeap(PairCap)
    /\ last = NoCall
    /\ prog = [cap |-> PairCap, watch |-> {}, fields |-> {}]

SpecPair == InitPair /\ [][NextPair]_vars

\* Two buffers; the program keeps which buffers its constructions,
\* assignments and comparisons were made on and from, and what the
\* comparisons answered.
InitTransfer ==
    /\ bufs = [b \in Inst |-> NoObj]
    /\ heap = InitHeap(PairCap)
    /\ last = NoCall
    /\ prog = [cap |-> PairCap,
               watch |-> {"DataBuffer", "operator=", "operator==",
                          "operator!="},
               fields |-> {"op", "type", "inst", "offset", "n"}]

SpecTransfer == InitTransfer /\ [][NextPair]_vars

----------------------------------------------------------------------------
(* The program that writes one value into a fresh buffer of CodecCap       *)
(* octets and decodes it, then starts over with a new buffer.              *)

\* The words at the edges of the encoded lengths: 0, 2^k, 2^(k+1) - 1, and
\* the two words of alternating bits.
EdgeWords ==
    {{}} \cup {{k} : k \in AllOnes64} \cup {0..k : k \in AllOnes64}
         \cup {{k \in AllOnes64 : k % 2 = 0}, {k \in AllOnes64 : k % 2 = 1}}

\* The unsigned values written, and the signed ones: the same words and
\* their complements, so both signs of each magnitude.
CodecUintValues == EdgeWords
CodecIntValues == EdgeWords \cup {AllOnes64 \ S : S \in EdgeWords}

\* Octet sequences written to be decoded: a lead octet, a run of octets
\* with the continuation bit, and a final octet without it or none.
CraftedLeads == {<<129>>, <<128>>, <<255>>, <<1>>}
CraftedRuns == {[k \in 1..n |-> o] : n \in 0..10, o \in {128, 255}}
CraftedEnds == {<<>>, <<0>>, <<127>>}
CraftedSpans ==
    {l \o r \o e : l \in CraftedLeads, r \in CraftedRuns, e \in CraftedEnds}

\* Where the program decodes what it crafted: SIZE_MAX, the start, the
\* second octet, the last octet, and at and past the capacity.
DecodeOffsets ==
    {0 - 1, 0, 1, prog.cap - 1, prog.cap, prog.cap + 1}

Fresh == last.op = "DataBuffer" /\ last.status = "ok"

Written(type) ==
    last.op = "SetValue" /\ last.type = type /\ last.status = "ok"

NextCodec ==
    \/ \E size \in {prog.cap} : ConstructSized(1, size)
    \/ Fresh /\ \E S \in CodecUintValues, off \in 0..(prog.cap - 1) :
                  CallSetValueVarUint(1, S, off, 0)
    \/ Fresh /\ \E S \in CodecIntValues, off \in 0..(prog.cap - 1) :
                  CallSetValueVarInt(1, S, off, 0)
    \/ Fresh /\ \E octs \in CraftedSpans :
                  \E off \in {0, prog.cap - Len(octs)} :
                     CallSetValueSpan(1, octs, off, 0)
    \/ Written("varuint") /\ CallGetValueVarUint(1, last.offset, 0)
    \/ Written("varint") /\ CallGetValueVarInt(1, last.offset, 0)
    \/ Written("span") /\ \E off \in DecodeOffsets :
                             \E g \in StrayWrap(off) :
                                CallGetValueVarUint(1, off, g)
    \/ Written("span") /\ \E off \in DecodeOffsets :
                             \E g \in StrayPeek(off, CapOf(1)) :
                                CallGetValueVarInt(1, off, g)
    \/ last.op \in {"SetValue", "GetValue"} /\ Destroy(1)

InitCodec ==
    /\ bufs = [b \in Inst |-> NoObj]
    /\ heap = InitHeap(0)
    /\ last = NoCall
    /\ prog = [cap |-> CodecCap,
               watch |-> {"DataBuffer", "SetValue", "GetValue"},
               fields |-> AllFields]

SpecCodec == InitCodec /\ [][NextCodec]_vars

----------------------------------------------------------------------------
(* The program that appends variable-width integers to a buffer of         *)
(* NarrowCap octets and reads them into 16- and 32-bit variable-width     *)
(* types.                                                                  *)

\* Unsigned values appended: 2^16 - 1, 2^16 and 2^32.
NarrowUintValues == {0..15, {16}, {32}}

\* Signed values appended: 32767, 32768, -32768, -32769 and 2^31.
NarrowIntValues ==
    {0..14, {15}, AllOnes64 \ (0..14), AllOnes64 \ {15}, {31}}

NextNarrow ==
    \/ \E size \in {prog.cap} : ConstructSized(1, size)
    \/ \E S \in NarrowUintValues : AppendValueVarUint(1, S, 0)
    \/ \E S \in NarrowIntValues : AppendValueVarInt(1, S, 0)
    \/ \E w \in {16, 32} : ReadValueNarrow(1, FALSE, w, 0)
    \/ \E w \in {16, 32} :
         \E g \in StrayPeek(bufs[1].read_position, CapOf(1)) :
            ReadValueNarrow(1, TRUE, w, g)
    \/ \E w \in {16, 32}, off \in {0, 3} :
         CallGetValueNarrow(1, FALSE, w, off, 0)
    \/ \E w \in {16, 32}, off \in {0, 3} :
         CallGetValueNarrow(1, TRUE, w, off, 0)
    \/ Destroy(1)

InitNarrow ==
    /\ bufs = [b \in Inst |-> NoObj]
    /\ heap = InitHeap(0)
    /\ last = NoCall
    /\ prog = [cap |-> NarrowCap, watch |-> {"GetValue", "ReadValue"},
               fields |-> AllFields]

SpecNarrow == InitNarrow /\ [][NextNarrow]_vars

----------------------------------------------------------------------------
(* The program that streams up to MaxItems values into a fresh buffer of   *)
(* StreamCap octets (operator<<, which is AppendValue) and then streams    *)
(* them out in the same order into variables of the same types            *)
(* (operator>>, which is ReadValue).                                       *)

\* Integers streamed, as <<width in octets, word>>: the uint8 0x12, the
\* uint16 0x0003, the int16 -2, the uint32 0xDEADBEEF and the int64
\* INT64_MIN + 1.
StreamInts ==
    {<<1, BitsOf(18)>>, <<2, {0, 1}>>, <<2, 1..15>>,
     <<4, HostWord(<<239, 190, 173, 222>>)>>, <<8, {0, 63}>>}

\* Byte spans streamed.
StreamSpans == {<<>>, <<0, 129>>}

\* Variable-width integers streamed: 128 and 2^64 - 1; -32769 and
\* INT64_MIN.
StreamVarUints == {{7}, AllOnes64}
StreamVarInts == {AllOnes64 \ {15}, {63}}

\* The program is still streaming in.
Sending == prog.got = <<>> /\ Len(prog.sent) < MaxItems

\* The program is streaming out the value of the kind type.
Receiving(type) ==
    /\ Len(prog.got) < Len(prog.sent)
    /\ prog.sent[Len(prog.got) + 1].type = type

NextStream ==
    \/ \E size \in {prog.cap} : ConstructSized(1, size)
    \/ Sending /\ \E v \in StreamInts : AppendValueInt(1, v[1], v[2], 0)
    \/ Sending /\ \E octs \in StreamSpans : AppendValueSpan(1, octs, 0)
    \/ Sending /\ \E S \in StreamVarUints : AppendValueVarUint(1, S, 0)
    \/ Sending /\ \E S \in StreamVarInts : AppendValueVarInt(1, S, 0)
    \/ Receiving("int")
          /\ ReadValueInt(1, prog.sent[Len(prog.got) + 1].size, 0)
    \/ Receiving("span")
          /\ ReadValueSpan(1, prog.sent[Len(prog.got) + 1].size, 0)
    \/ Receiving("varuint") /\ ReadValueVarUint(1, 0)
    \/ Receiving("varint")
          /\ \E g \in StrayPeek(bufs[1].read_position, CapOf(1)) :
                ReadValueVarInt(1, g)
    \/ Destroy(1)

InitStream ==
    /\ bufs = [b \in Inst |-> NoObj]
    /\ heap = InitHeap(0)
    /\ last = NoCall
    /\ prog = [cap |-> StreamCap, watch |-> {"AppendValue", "ReadValue"},
               fields |-> AllFields, sent |-> <<>>, got |-> <<>>]

SpecStream == InitStream /\ [][NextStream]_vars

----------------------------------------------------------------------------
(* Properties                                                              *)

\* C1: after any sequence of constructions, SetBuffer, SetDataLength,
\* SetReadPosition, AdvanceReadPosition, SetValue, AppendValue, ReadValue,
\* copies and moves, each succeeding or throwing, every buffer has
\* data_length <= capacity and read_position <= data_length.
BoundsInvariant ==
    \A b \in Inst :
        /\ bufs[b].data_length >= 0
        /\ bufs[b].data_length <= bufs[b].buffer_size
        /\ bufs[b].read_position >= 0
        /\ bufs[b].read_position <= bufs[b].data_length

\* A call has just thrown on a full, fully read buffer while the second
\* buffer holds a copy that has been read from.
BoundsReached ==
    /\ last.status = "exception"
    /\ bufs[1].alive /\ bufs[1].buffer_size > 0
    /\ bufs[1].data_length = bufs[1].buffer_size
    /\ bufs[1].read_position = bufs[1].data_length
    /\ bufs[2].alive /\ bufs[2].read_position > 0

\* C2: a SetValue, AppendValue, ReadValue, SetDataLength, SetReadPosition
\* or AdvanceReadPosition that throws leaves the capacity, data_length,
\* read_position and every storage octet as they were before the call.
FailureChangesNothing ==
    [][(last'.op \in Mutators /\ last'.status \notin {"ok", "crash"})
          => (bufs' = bufs /\ heap' = heap)]_vars

\* An AppendValue has just thrown on a buffer that holds data, part of it
\* read.
FailureReached ==
    /\ last.op = "AppendValue" /\ last.status = "OutOfBounds"
    /\ bufs[1].data_length > 0 /\ bufs[1].read_position > 0

\* The value a GetValue of the kind and size of the call c yields at
\* offset on b's storage.
GetValueLike(c, b, offset) ==
    IF c.type = "span"
    THEN GetValueSpan(StorageOf(b), CapOf(b), c.size, offset, 0)
    ELSE GetValueInt(StorageOf(b), CapOf(b), c.size, offset, 0)

\* C3: ReadValue of a fixed-width value or byte span of size s throws
\* OutOfBounds exactly when read_position + s > data_length, whatever the
\* capacity; otherwise it yields what GetValue yields at read_position and
\* advances read_position by s, data_length and the octets staying as
\* they were.
ReadValueFixed ==
    [][(last'.op = "ReadValue" /\ last'.type \in {"span", "int"}) =>
         LET b == last'.inst
             o == bufs[b]
             s == last'.size
             get == GetValueLike(last', b, o.read_position)
         IN  IF o.read_position + s > o.data_length
             THEN /\ last'.status = "OutOfBounds"
                  /\ bufs' = bufs /\ heap' = heap
             ELSE /\ last'.status = "ok" /\ get.status = "ok"
                  /\ last'.bits = get.bits /\ last'.octets = get.octets
                  /\ bufs' = [bufs EXCEPT ![b].read_position = @ + s]
                  /\ heap' = heap]_vars

\* A 16-bit ReadValue has just yielded 0x8100 from the end of the data.
ReadValueFixedReached ==
    /\ last.op = "ReadValue" /\ last.type = "int" /\ last.size = 2
    /\ last.status = "ok" /\ last.bits = {8, 15}
    /\ bufs[1].read_position = bufs[1].data_length

\* The size in octets of the value the AppendValue call c was given.
AppendedSize(c) ==
    IF c.type = "span" THEN Len(c.octets)
    ELSE IF c.type = "int" THEN c.size
    ELSE IF c.type = "varuint" THEN VarUintSize(c.bits)
    ELSE VarIntSize(c.bits)

\* What SetValue of the value of the call c does at offset on b's storage.
SetValueLike(c, b, offset) ==
    IF c.type = "span"
    THEN SetValueSpan(StorageOf(b), CapOf(b), c.octets, offset, 0)
    ELSE IF c.type = "int"
    THEN SetValueInt(StorageOf(b), CapOf(b), c.bits, c.size, offset, 0)
    ELSE IF c.type = "varuint"
    THEN SetValueVarUint(StorageOf(b), CapOf(b), c.bits, offset, 0)
    ELSE SetValueVarInt(StorageOf(b), CapOf(b), c.bits, offset, 0)

\* C4: AppendValue of a value of size s (a varint's encoded length, which
\* the call returns) throws exactly when data_length + s > capacity;
\* otherwise it stores the octets SetValue(value, data_length) stores,
\* adds s to data_length, and leaves read_position and the octets outside
\* [old data_length, old data_length + s) as they were.
AppendValueAppends ==
    [][last'.op = "AppendValue" =>
         LET b == last'.inst
             o == bufs[b]
             s == AppendedSize(last')
             set == SetValueLike(last', b, o.data_length)
             after == BytesAt(heap', bufs'[b].buffer)
         IN  IF o.data_length + s > o.buffer_size
             THEN /\ last'.status = "OutOfBounds"
                  /\ bufs' = bufs /\ heap' = heap
             ELSE /\ last'.status = "ok" /\ set.status = "ok"
                  /\ heap' = Stored(b, set)
                  /\ bufs' = [bufs EXCEPT ![b].data_length = @ + s]
                  /\ last'.type \in {"varuint", "varint"} => last'.n = s
                  /\ \A k \in 1..o.buffer_size :
                        (k <= o.data_length \/ k > o.data_length + s)
                            => after[k] = StorageOf(b)[k]]_vars

\* The unsigned varint 128 has just been appended to an empty buffer as
\* the two octets 0x81 0x00.
AppendValueReached ==
    /\ last.op = "AppendValue" /\ last.type = "varuint"
    /\ last.status = "ok" /\ last.n = 2 /\ last.offset = 0
    /\ bufs[1].data_length = 2
    /\ StorageOf(1)[1] = 129 /\ StorageOf(1)[2] = 0

\* Whether the mathematical sum offset + size exceeds cap; an offset in
\* the upper half of std::size_t exceeds every capacity by itself.
Beyond(offset, size, cap) == offset < 0 \/ offset + size > cap

\* C5: SetValue, GetValue and operator[] succeed whenever offset + size <=
\* capacity, whatever data_length and read_position are, throw
\* OutOfBounds when offset + size > capacity, and never change
\* data_length or read_position.  (Stated for the calls whose size is
\* known from their arguments, which leaves out the varint decode.)
RandomAccessBounded ==
    [][(/\ last'.op \in {"SetValue", "GetValue", "operator[]"}
        /\ ~(last'.op = "GetValue" /\ last'.type \in {"varuint", "varint"}))
         => /\ bufs' = bufs
            /\ IF Beyond(last'.offset, last'.size, CapOf(1))
               THEN last'.status = "OutOfBounds"
               ELSE last'.status = "ok"]_vars

\* A SetValue has just succeeded at the end of the storage of a buffer
\* that holds no data.
RandomAccessReached ==
    /\ last.op = "SetValue" /\ last.status = "ok" /\ last.size = 1
    /\ last.offset = CapOf(1) - 1 /\ bufs[1].data_length = 0

\* C9: the signed decode, by GetValue or by ReadValue, never accesses an
\* octet at an index >= capacity: at an offset >= capacity it throws
\* OutOfBounds before it reads any octet.
SignedDecodeStaysInside ==
    [][(last'.op \in {"GetValue", "ReadValue"} /\ last'.type = "varint")
         => /\ ~last'.oob
            /\ SizeGE(last'.offset, CapOf(1))
                  => last'.status = "OutOfBounds"]_vars

\* A signed GetValue has just been made at the offset that equals the
\* capacity.
SignedDecodeReached ==
    /\ last.op = "GetValue" /\ last.type = "varint"
    /\ bufs[1].alive /\ last.offset = CapOf(1) /\ CapOf(1) > 0

\* C10: SetBuffer(pointer, capacity, data_length) with a non-null pointer
\* and capacity = 0 or data_length > capacity throws InvalidArgument and
\* leaves the storage bound or owned before, the capacity, data_length,
\* read_position and ownership flag as they were.
SetBufferFailureChangesNothing ==
    [][(/\ last'.op = "SetBuffer" /\ last'.type = "pointer"
        /\ last'.offset # 0
        /\ (last'.size = 0 \/ last'.n > last'.size))
         => /\ last'.status = "InvalidArgument"
            /\ bufs' = bufs /\ heap' = heap]_vars

\* A SetBuffer has just thrown InvalidArgument.
SetBufferFailureReached ==
    /\ last.op = "SetBuffer" /\ last.type = "pointer"
    /\ last.status = "InvalidArgument"

\* C6: SetValue of an unsigned varint at an offset with room, then
\* GetValue at that offset, succeeds, returns the value written, and
\* returns the octet count SetValue returned.
UnsignedRoundTrip ==
    [][(Written("varuint") /\ last'.op = "GetValue")
         => /\ last'.type = "varuint" /\ last'.offset = last.offset
            /\ last'.status = "ok"
            /\ last'.bits = last.bits /\ last'.n = last.n]_vars

\* 2^64 - 1 has just been decoded from the ten octets written at the
\* third octet of the buffer.
UnsignedRoundTripReached ==
    /\ last.op = "GetValue" /\ last.type = "varuint" /\ last.status = "ok"
    /\ last.bits = AllOnes64 /\ last.n = 10 /\ last.offset = 2

\* C7: SetValue of a signed varint at an offset with room, then GetValue
\* at that offset, succeeds, returns the value written, and returns the
\* octet count SetValue returned.
SignedRoundTrip ==
    [][(Written("varint") /\ last'.op = "GetValue")
         => /\ last'.type = "varint" /\ last'.offset = last.offset
            /\ last'.status = "ok"
            /\ last'.bits = last.bits /\ last'.n = last.n]_vars

\* INT64_MIN has just been decoded from the ten octets written at the
\* start of the buffer.
SignedRoundTripReached ==
    /\ last.op = "GetValue" /\ last.type = "varint" /\ last.status = "ok"
    /\ last.bits = {63} /\ last.n = 10 /\ last.offset = 0

\* The number of octets, from offset on and at most ten, that lie inside
\* the storage and have the continuation bit set.
RECURSIVE ContinuationRun(_, _, _, _)
ContinuationRun(bytes, cap, offset, k) ==
    IF k = 10 \/ ~InCap(offset + k, cap) THEN k
    ELSE IF bytes[offset + k + 1] < 128 THEN k
    ELSE ContinuationRun(bytes, cap, offset, k + 1)

\* The status and count C8 gives the unsigned decode at offset.
UnsignedDecodeExpected(bytes, cap, offset) ==
    LET run == ContinuationRun(bytes, cap, offset, 0)
    IN  IF run = 10 THEN [status |-> "MalformedVarint", n |-> 0]
        ELSE IF ~InCap(offset + run, cap)
        THEN [status |-> "OutOfBounds", n |-> 0]
        ELSE IF run + 1 = 10 /\ bytes[offset + 1] # 129
        THEN [status |-> "MalformedVarint", n |-> 0]
        ELSE [status |-> "ok", n |-> run + 1]

\* C8: the unsigned GetValue throws MalformedVarint when ten consecutive
\* octets from offset have the continuation bit, or when ten octets are
\* consumed and the first is not 0x81; it throws OutOfBounds when the
\* next octet to read lies at an index >= capacity; otherwise it succeeds
\* and returns the number of octets consumed.
UnsignedDecodeClassified ==
    [][(last'.op = "GetValue" /\ last'.type = "varuint") =>
         LET e == UnsignedDecodeExpected(StorageOf(1), CapOf(1), last'.offset)
         IN  last'.status = e.status /\ last'.n = e.n]_vars

\* An unsigned GetValue has just thrown MalformedVarint at the start of
\* a buffer whose first ten octets all have the continuation bit.
UnsignedDecodeReached ==
    /\ last.op = "GetValue" /\ last.type = "varuint"
    /\ last.status = "MalformedVarint" /\ last.offset = 0
    /\ ContinuationRun(StorageOf(1), CapOf(1), 0, 0) = 10

\* C11: a ReadValue into a 16- or 32-bit variable-width type that throws
\* because the decoded value is outside the type's range leaves the
\* buffer as it was: read_position is not advanced past the varint.
NarrowFailureChangesNothing ==
    [][(last'.op = "ReadValue" /\ last'.status = "OutOfRange")
          => (bufs' = bufs /\ heap' = heap)]_vars

\* A ReadValue into the signed 16-bit type has just rejected -32769.
NarrowFailureReached ==
    /\ last.op = "ReadValue" /\ last.type = "varintN" /\ last.size = 16
    /\ last.status = "OutOfRange" /\ last.bits = AllOnes64 \ {15}

\* The live buffers whose ownership flag is set and whose pointer names
\* region r, in the object table t.
OwnersOf(t, r) ==
    {b \in Inst : t[b].alive /\ t[b].owns_buffer /\ t[b].buffer = r}

\* C12: across constructions, copies, moves, assignments, SetBuffer and
\* destructions over two buffers, a buffer's ownership flag is set only
\* for a region operator new[] handed out, which the buffer allocated in
\* that call or took over from the buffer it was moved from; no region has
\* two owners; every allocated region has an owner until it is freed, and
\* is freed once; the caller's storage is never freed.
OwnershipExclusive ==
    /\ [](/\ \A b \in Inst :
               bufs[b].owns_buffer =>
                  /\ bufs[b].alive /\ bufs[b].buffer \in HeapRegions
                  /\ heap[bufs[b].buffer].kind = "new"
          /\ \A r \in HeapRegions :
               /\ heap[r].kind \in {"new", "free"}
               /\ heap[r].kind = "new" => Cardinality(OwnersOf(bufs, r)) = 1
               /\ heap[r].kind = "free" => OwnersOf(bufs, r) = {}
          /\ \A r \in CallerRegions : heap[r].kind = "caller")
    /\ [][\A r \in HeapRegions :
            \A b \in OwnersOf(bufs', r) \ OwnersOf(bufs, r) :
               \/ heap[r].kind = "free"
               \/ \E o \in OwnersOf(bufs, r) : o # b]_vars

\* Each of the two buffers owns a region, and the second owns the one
\* that was allocated first.
OwnershipReached ==
    /\ bufs[1].alive /\ bufs[1].owns_buffer /\ bufs[1].buffer = 3
    /\ bufs[2].alive /\ bufs[2].owns_buffer /\ bufs[2].buffer = 2

\* C13: a buffer whose storage pointer is null has capacity, data_length
\* and read_position 0 and does not own: after default construction,
\* construction with size 0, being moved from, and rebinding to nullptr.
NullStorageEmpty ==
    \A b \in Inst :
        bufs[b].buffer = 0 =>
            /\ bufs[b].buffer_size = 0 /\ bufs[b].data_length = 0
            /\ bufs[b].read_position = 0 /\ ~bufs[b].owns_buffer

\* The first buffer has been moved from: it is alive without storage, and
\* the second holds the caller's array the first was bound to.
NullStorageReached ==
    /\ bufs[1].alive /\ bufs[1].buffer = 0
    /\ bufs[2].alive /\ bufs[2].buffer \in CallerRegions

ReadPositionBounded ==
    [][last'.op \in {"SetReadPosition", "AdvanceReadPosition"} =>
         LET o == bufs[1]
             arg == last'.offset
             from == IF last'.op = "SetReadPosition" THEN 0
                     ELSE o.read_position
         IN  IF Beyond(arg, from, o.data_length)
             THEN last'.status = "OutOfBounds" /\ bufs' = bufs
             ELSE /\ last'.status = "ok"
                  /\ bufs' = [bufs EXCEPT ![1].read_position = from + arg]
      ]_vars

\* AdvanceReadPosition has just been given SIZE_MAX on a buffer that
\* holds data.
ReadPositionReached ==
    /\ last.op = "AdvanceReadPosition" /\ last.offset = 0 - 1
    /\ bufs[1].data_length > 0

\* C16: values appended in order to an empty buffer with room for them
\* (fixed-width integers, byte spans, unsigned and signed varints) and
\* then read with ReadValue, with the same types and span lengths in the
\* same order, are read back as they were appended: no read throws, each
\* value read equals the value appended at its place, and when all have
\* been read read_position = data_length.
StreamReadsBack ==
    /\ Len(prog.got) <= Len(prog.sent)
    /\ \A k \in 1..Len(prog.got) : prog.got[k] = prog.sent[k]
    /\ last.op = "ReadValue" => last.status = "ok"
    /\ (bufs[1].alive /\ Len(prog.got) = Len(prog.sent))
          => bufs[1].read_position = bufs[1].data_length

\* The program has read back a signed varint, a byte span and a 32-bit
\* integer, in that order.
StreamReadsBackReached ==
    /\ Len(prog.got) = 3 /\ Len(prog.sent) = 3
    /\ prog.got[1].type = "varint" /\ prog.got[1].bits = AllOnes64 \ {15}
    /\ prog.got[2].type = "span" /\ prog.got[2].octets = <<0, 129>>
    /\ prog.got[3].type = "int" /\ prog.got[3].size = 4
    /\ bufs[1].read_position = 9

\* Bits 8(w-1-k) .. 8(w-1-k)+7 of the word S as an octet: octet k of the
\* w octets of S, the most significant being octet 0.
ExpectedOctet(S, w, k) ==
    OctetOf({i - 8 * (w - 1 - k) : i \in {j \in S : j \div 8 = w - 1 - k}})

\* The journal entry of an appended integer of w octets.
IntItem(w, S) == [type |-> "int", size |-> w, bits |-> S, octets |-> <<>>]

\* The uint8 0x12, the uint16 0x0003 and the uint32 0xDEADBEEF.
ExampleItems ==
    <<IntItem(1, BitsOf(18)), IntItem(2, {0, 1}),
      IntItem(4, HostWord(<<239, 190, 173, 222>>))>>

\* C17: SetValue of an integer of w octets at offset o, as AppendValue
\* calls it at data_length, stores as octet o + k bits 8(w-1-k) ..
\* 8(w-1-k)+7 of the value, most significant octet first, a one-octet
\* value being stored as it is; and appending the uint8 0x12, the uint16
\* 0x0003 and the uint32 0xDEADBEEF to an empty buffer leaves the octets
\* 12 00 03 DE AD BE EF and data_length 7.
BigEndianStored ==
    /\ [][(last'.op = "AppendValue" /\ last'.type = "int"
             /\ last'.status = "ok") =>
            LET after == BytesAt(heap', bufs'[1].buffer)
            IN  \A k \in 0..(last'.size - 1) :
                   after[last'.offset + k + 1] =
                       ExpectedOctet(last'.bits, last'.size, k)]_vars
    /\ [](prog.sent = ExampleItems =>
            /\ bufs[1].data_length = 7
            /\ \A k \in 1..7 :
                  StorageOf(1)[k] = <<18, 0, 3, 222, 173, 190, 239>>[k])

\* The program has appended the uint8 0x12, the uint16 0x0003 and the
\* uint32 0xDEADBEEF to an empty buffer, the last at offset 3.
BigEndianReached ==
    /\ prog.sent = ExampleItems /\ prog.got = <<>>
    /\ last.op = "AppendValue" /\ last.offset = 3 /\ last.size = 4

\* The least n in 1..10 with u < 2^(7n), u being the unsigned word S.
LeastUnsigned(S) ==
    CHOOSE n \in 1..10 :
        /\ S \subseteq 0..(7 * n - 1)
        /\ \A m \in 1..(n - 1) : ~(S \subseteq 0..(7 * m - 1))

\* Whether the signed word S is a 7n-bit two's-complement number sign-
\* extended: bits 7n-1 .. 63 are all equal.
FitsSigned(S, n) ==
    \/ \A i \in (7 * n - 1)..63 : i \in S
    \/ \A i \in (7 * n - 1)..63 : i \notin S

\* The least n in 1..10 such that the signed word S fits 7n bits.
LeastSigned(S) ==
    CHOOSE n \in 1..10 :
        FitsSigned(S, n) /\ \A m \in 1..(n - 1) : ~FitsSigned(S, m)

\* C18: the encoded length is the least septet count.  VarUintSize(u),
\* which SetValue computes and returns, is the least n in 1..10 with
\* u < 2^(7n): 1 for 0, 10 for 2^63 and for 2^64 - 1.  VarIntSize(v) is the
\* least n in 1..10 such that v fits a 7n-bit two's-complement field: 10
\* for INT64_MIN and for INT64_MAX.
EncodedLengthLeast ==
    /\ (last.op = "SetValue" /\ last.type = "varuint") =>
          /\ last.size = LeastUnsigned(last.bits)
          /\ last.status = "ok" => last.n = last.size
          /\ last.bits = {} => last.size = 1
          /\ last.bits \in {{63}, AllOnes64} => last.size = 10
    /\ (last.op = "SetValue" /\ last.type = "varint") =>
          /\ last.size = LeastSigned(last.bits)
          /\ last.status = "ok" => last.n = last.size
          /\ last.bits \in {{63}, 0..62} => last.size = 10

\* -65, the largest value below the one-octet range, has just been
\* written in two octets.
EncodedLengthReached ==
    /\ last.op = "SetValue" /\ last.type = "varint" /\ last.status = "ok"
    /\ last.bits = AllOnes64 \ {6} /\ last.n = 2

\* Bits 7m .. 7m+6 of the 64-bit word S as a septet; beyond bit 63 a
\* signed word continues with its sign bit and an unsigned word with 0.
Septet(S, m, signed) ==
    LET bit(i) == IF i <= 63 THEN i \in S ELSE signed /\ 63 \in S
    IN  OctetOf({i - 7 * m : i \in {j \in (7 * m)..(7 * m + 6) : bit(j)}})

\* C19: SetValue of a varint of encoded length n returns n and writes the
\* n octets at offset .. offset + n - 1: octet k holds bits 7(n-1-k) ..
\* 7(n-1-k)+6 of the value's 64-bit pattern (sign-extended for a signed
\* value) in its low seven bits, its high bit is 1 for k < n - 1 and 0
\* for k = n - 1, and every other octet of the storage is unchanged.
VarintOctetsWritten ==
    [][(/\ last'.op = "SetValue" /\ last'.type \in {"varuint", "varint"}
        /\ last'.status = "ok") =>
         LET n == last'.n
             off == last'.offset
             signed == last'.type = "varint"
             before == StorageOf(1)
             after == BytesAt(heap', bufs'[1].buffer)
         IN  /\ n = last'.size
             /\ \A k \in 0..(n - 1) :
                   after[off + k + 1] =
                       Septet(last'.bits, n - 1 - k, signed)
                         + (IF k < n - 1 THEN 128 ELSE 0)
             /\ \A j \in 1..CapOf(1) :
                   (j <= off \/ j > off + n) => after[j] = before[j]
             /\ bufs' = bufs]_vars

\* INT64_MIN has just been written as ten octets from the third octet of
\* the buffer, the first of them 0xFF.
VarintOctetsReached ==
    /\ last.op = "SetValue" /\ last.type = "varint" /\ last.status = "ok"
    /\ last.bits = {63} /\ last.n = 10 /\ last.offset = 2
    /\ StorageOf(1)[3] = 255 /\ StorageOf(1)[12] = 0

\* The 64-bit word the n octets from offset stand for as a signed varint:
\* bit i below 7n is bit i mod 7 of the octet n - 1 - i div 7 places after
\* the first, and every bit from 7n up is bit 0x40 of the first octet.
SignedValue(bytes, offset, n) ==
    {i \in 0..63 :
        IF i < 7 * n THEN (i % 7) \in BitsOf(bytes[offset + n - (i \div 7)])
        ELSE 6 \in BitsOf(bytes[offset + 1])}

\* C20: the signed GetValue at an offset inside the storage starts from
\* the accumulator all-ones when bit 0x40 of the octet at offset is set
\* and from 0 when it is clear, and ors in the septets as the unsigned
\* decode does; it throws MalformedVarint when ten octets from offset have
\* the continuation bit, and when exactly ten octets are consumed and the
\* first is neither 0x80 nor 0xFF.  (Nothing is stated here for an
\* encoding that runs off the end of the storage.)
SignedDecodeClassified ==
    [][(/\ last'.op = "GetValue" /\ last'.type = "varint"
        /\ InCap(last'.offset, CapOf(1))) =>
         LET bytes == StorageOf(1)
             off == last'.offset
             run == ContinuationRun(bytes, CapOf(1), off, 0)
         IN  IF run = 10 THEN last'.status = "MalformedVarint"
             ELSE IF ~InCap(off + run, CapOf(1)) THEN TRUE
             ELSE IF run + 1 = 10 /\ bytes[off + 1] \notin {128, 255}
             THEN last'.status = "MalformedVarint"
             ELSE /\ last'.status = "ok" /\ last'.n = run + 1
                  /\ last'.bits = SignedValue(bytes, off, run + 1)]_vars

\* A signed GetValue has just thrown MalformedVarint on ten octets that
\* begin with 0x81 and end with an octet without the continuation bit.
SignedDecodeClassifiedReached ==
    /\ last.op = "GetValue" /\ last.type = "varint"
    /\ last.status = "MalformedVarint" /\ last.offset = 0
    /\ ContinuationRun(StorageOf(1), CapOf(1), 0, 0) = 9
    /\ StorageOf(1)[1] = 129 /\ StorageOf(1)[10] < 128

\* Whether the 64-bit word S is a value of the type of w bits: below 2^w
\* for an unsigned type, from -2^(w-1) to 2^(w-1) - 1 for a signed one.
InRangeOf(S, signed, w) ==
    IF signed
    THEN (\A i \in (w - 1)..63 : i \in S) \/ (\A i \in (w - 1)..63 : i \notin S)
    ELSE S \subseteq 0..(w - 1)

\* What the 64-bit GetValue of the signedness of the call c yields at
\* offset on b's storage.
Decode64(c, b, offset) ==
    IF c.type = "varintN"
    THEN GetValueVarInt(StorageOf(b), CapOf(b), offset, 0)
    ELSE GetValueVarUint(StorageOf(b), CapOf(b), offset, 0)

\* C21: GetValue and ReadValue into a 16- or 32-bit variable-width type T
\* decode the 64-bit varint first; when that decode succeeds (and, for
\* ReadValue, ends within data_length) the call throws exactly when the
\* value is above T's maximum or below T's minimum, and otherwise yields
\* the decoded value and the octet count of the 64-bit decode.
NarrowDecodeClassified ==
    [][(/\ last'.op \in {"GetValue", "ReadValue"}
        /\ last'.type \in {"varuintN", "varintN"}
        /\ InCap(last'.offset, CapOf(1))) =>
         LET d == Decode64(last', 1, last'.offset)
             ends == last'.op = "GetValue"
                       \/ last'.offset + d.n <= bufs[1].data_length
         IN  IF d.status # "ok" THEN last'.status = d.status
             ELSE IF ~ends THEN last'.status = "OutOfBounds"
             ELSE IF InRangeOf(d.bits, last'.type = "varintN", last'.size)
             THEN /\ last'.status = "ok"
                  /\ last'.bits = d.bits /\ last'.n = d.n
             ELSE last'.status = "OutOfRange"]_vars

\* A GetValue into the unsigned 16-bit type has just yielded 65535, the
\* largest value of the type.
NarrowDecodeReached ==
    /\ last.op = "GetValue" /\ last.type = "varuintN" /\ last.size = 16
    /\ last.status = "ok" /\ last.bits = 0..15 /\ last.n = 3

\* C22: ReadValue of a 64-bit variable-width integer is bounded by
\* data_length: when the octets from read_position up to data_length
\* hold no final octet, the call throws, even when the final octet lies
\* within the capacity, and nothing changes; when it succeeds,
\* read_position advances by the count returned, which stays within
\* data_length.
VarintReadBounded ==
    [][(last'.op = "ReadValue" /\ last'.type \in {"varuint", "varint"}) =>
         LET b == last'.inst
             o == bufs[b]
             run == ContinuationRun(StorageOf(b), o.data_length,
                                    o.read_position, 0)
         IN  /\ (run < 10 /\ ~InCap(o.read_position + run, o.data_length))
                   => /\ last'.status \notin {"ok", "crash"}
                      /\ bufs' = bufs /\ heap' = heap
             /\ last'.status = "ok"
                   => /\ last'.n >= 1
                      /\ o.read_position + last'.n <= o.data_length
                      /\ bufs' = [bufs EXCEPT
                                    ![b].read_position = @ + last'.n]
                      /\ heap' = heap]_vars

\* A signed ReadValue has just been made with every octet of the storage
\* already read: read_position = data_length = capacity.
VarintReadReached ==
    /\ last.op = "ReadValue" /\ last.type = "varint"
    /\ bufs[1].alive /\ CapOf(1) > 0
    /\ last.offset = CapOf(1) /\ bufs[1].data_length = CapOf(1)

View(t, h, x) == [obj |-> t[x], bytes |-> BytesAt(h, t[x].buffer)]

\* C24: the copy constructor and the copy assignment from another buffer
\* leave the source and its octets as they were and give the target the
\* source's capacity, data_length and read_position; a source without
\* storage gives a target without storage, and any other source a target
\* that owns storage of its own, apart from the source's, holding the
\* source's octets over the whole capacity.  Storage the target owned
\* before is freed unless the assignment keeps it; storage of the caller
\* that the target was bound to stays as it was, and so does every other
\* region.  In every later call, of two buffers with storage apart at
\* most one changes.
CopyIsDeep ==
    [][/\ (/\ last'.op \in {"DataBuffer", "operator="}
           /\ last'.type = "copy" /\ last'.offset # last'.inst) =>
            LET b == last'.inst
                o == last'.offset
                src == bufs[o]
                old == bufs[b]
                new == bufs'[b]
            IN  /\ last'.status = "ok"
                /\ View(bufs', heap', o) = View(bufs, heap, o)
                /\ new.alive
                /\ new.buffer_size = src.buffer_size
                /\ new.data_length = src.data_length
                /\ new.read_position = src.read_position
                /\ IF src.buffer = 0
                   THEN new.buffer = 0 /\ ~new.owns_buffer
                   ELSE /\ new.owns_buffer /\ new.buffer \in HeapRegions
                        /\ new.buffer # src.buffer
                        /\ heap'[new.buffer].kind = "new"
                        /\ Len(BytesAt(heap', new.buffer)) = src.buffer_size
                        /\ \A k \in 1..src.buffer_size :
                              BytesAt(heap', new.buffer)[k]
                                 = BytesAt(heap, src.buffer)[k]
                /\ \A r \in CallerRegions : heap'[r] = heap[r]
                /\ (old.owns_buffer /\ heap'[old.buffer].kind = "new")
                      => /\ new.buffer = old.buffer
                         /\ last'.op = "operator="
                /\ \A r \in HeapRegions \ {new.buffer, old.buffer} :
                      heap'[r] = heap[r]
       /\ last'.op \notin {"DataBuffer", "operator="} =>
            \A x, y \in Inst :
               (/\ x # y /\ bufs[x].alive /\ bufs[y].alive
                /\ bufs[x].buffer # bufs[y].buffer)
                  => \/ View(bufs', heap', x) = View(bufs, heap, x)
                     \/ View(bufs', heap', y) = View(bufs, heap, y)]_vars

\* A copy assignment from the second buffer has just given the first
\* owned storage of capacity 1 that holds another octet than the caller's
\* array does.
CopyIsDeepReached ==
    /\ last.op = "operator=" /\ last.type = "copy" /\ last.inst = 1
    /\ last.offset = 2
    /\ bufs[1].owns_buffer /\ bufs[2].owns_buffer
    /\ bufs[1].buffer_size = 1
    /\ heap[1].bytes # heap[bufs[1].buffer].bytes

\* C25: the move constructor and the move assignment from another buffer
\* give the target the source's pointer, ownership flag, capacity,
\* data_length and read_position and leave the source empty: no storage,
\* every counter 0, not owning.  Nothing is allocated and no octet is
\* copied: the heap is as before, except that the move assignment has
\* freed the storage the target owned.
MoveTransfers ==
    [][(/\ last'.op \in {"DataBuffer", "operator="}
        /\ last'.type = "move" /\ last'.offset # last'.inst) =>
         LET b == last'.inst
             o == last'.offset
             src == bufs[o]
             old == bufs[b]
         IN  /\ last'.status = "ok"
             /\ bufs'[b] = src
             /\ bufs'[o] = EmptyObj
             /\ heap' = IF last'.op = "operator=" /\ old.owns_buffer
                        THEN [heap EXCEPT ![old.buffer] = FreeRegion]
                        ELSE heap]_vars

\* A move assignment has just handed the first buffer the region the
\* second owned, and the region the first owned before is free.
MoveTransfersReached ==
    /\ last.op = "operator=" /\ last.type = "move" /\ last.inst = 1
    /\ last.offset = 2 /\ bufs[2] = EmptyObj
    /\ bufs[1].owns_buffer /\ bufs[1].buffer = 3 /\ heap[2].kind = "free"

\* C26: a SetBuffer that returns has freed the storage the buffer owned
\* and changed nothing else in memory; with a pointer that is not null
\* the buffer is bound to the region given, not owning it, with the
\* capacity and data_length given and read_position 0; with a null pointer
\* it is in the empty state whatever the other two arguments are.
SetBufferRebinds ==
    [][(last'.op = "SetBuffer" /\ last'.status = "ok") =>
         LET old == bufs[last'.inst]
             p == last'.offset
         IN  /\ bufs'[last'.inst] =
                  IF p = 0 THEN EmptyObj
                  ELSE [EmptyObj EXCEPT !.buffer = p,
                                        !.buffer_size = last'.size,
                                        !.data_length = last'.n]
             /\ heap' = IF old.owns_buffer
                        THEN [heap EXCEPT ![old.buffer] = FreeRegion]
                        ELSE heap]_vars

\* SetBuffer has just bound the buffer to one octet of data in the two
\* octets of the caller's array.
SetBufferRebindsReached ==
    /\ last.op = "SetBuffer" /\ last.type = "pointer" /\ last.status = "ok"
    /\ last.offset = 1 /\ last.size = 2 /\ last.n = 1
    /\ bufs[1].buffer = 1 /\ bufs[1].read_position = 0

\* C27: the constructor from a span and SetBuffer(span) succeed for every
\* span, one of length 0 over memory that is not null included, and leave
\* the buffer with capacity = data_length = the length of the span,
\* read_position 0 and not owning.
SpanBindingSucceeds ==
    [][(last'.op \in {"DataBuffer", "SetBuffer"} /\ last'.type = "span") =>
         LET new == bufs'[last'.inst]
         IN  /\ last'.status = "ok"
             /\ new.alive /\ ~new.owns_buffer
             /\ new.buffer_size = last'.size
             /\ new.data_length = last'.size
             /\ new.read_position = 0]_vars

\* SetBuffer has just been given a span of length 0 over the caller's
\* array.
SpanBindingReached ==
    /\ last.op = "SetBuffer" /\ last.type = "span"
    /\ last.offset = 1 /\ last.size = 0

\* C28: at every offset of std::size_t, those included at which the sum
\* offset + size wraps around, SetValue and GetValue of a span that is
\* not empty, of an integer of two or more octets and of a
\* variable-width integer throw OutOfBounds when offset + size, as a
\* mathematical sum, exceeds the capacity, and access no octet outside
\* the storage.  Offsets of 2^63 and more are the negative ones here; a
\* decode takes at least one octet.
WrappingOffsetsRefused ==
    [][(/\ last'.op \in {"SetValue", "GetValue"}
        /\ \/ last'.type = "span" /\ last'.size >= 1
           \/ last'.type = "int" /\ last'.size >= 2
           \/ last'.type \in {"varuint", "varint"})
         => /\ ~last'.oob
            /\ last'.status # "crash"
            /\ Beyond(last'.offset,
                      IF last'.size = 0 THEN 1 ELSE last'.size, CapOf(1))
                  => last'.status = "OutOfBounds"]_vars

\* SetValue of a span of two octets has just been called at offset
\* SIZE_MAX on a buffer that has storage.
WrappingOffsetsReached ==
    /\ last.op = "SetValue" /\ last.type = "span" /\ last.size = 2
    /\ last.offset = 0 - 1 /\ CapOf(1) >= 1

\* The septets of the n octets from offset, concatenated: bit i of the
\* 7n-bit number is bit i mod 7 of the octet n - 1 - i div 7 places after
\* the first.
Concatenated(bytes, offset, n) ==
    {i \in 0..(7 * n - 1) :
        (i % 7) \in BitsOf(bytes[offset + n - (i \div 7)])}

\* C29: a GetValue of a varint that succeeds on n octets inside the
\* storage drops no payload bit.  Unsigned: the value is the 7n-bit
\* number the septets make, which has no bit from 64 up.  Signed: the
\* value is that number read as 7n-bit two's complement and sign-extended
\* to 64 bits, and every bit of it from 63 up equals its sign bit.
NoPayloadBitDropped ==
    [][(/\ last'.op = "GetValue" /\ last'.type \in {"varuint", "varint"}
        /\ last'.status = "ok" /\ InCap(last'.offset, CapOf(1))) =>
         LET n == last'.n
             number == Concatenated(StorageOf(1), last'.offset, n)
             sign == (7 * n - 1) \in number
         IN  /\ n \in 1..10
             /\ IF last'.type = "varuint"
                THEN last'.bits = number
                ELSE /\ last'.bits =
                          {i \in 0..63 : IF i < 7 * n THEN i \in number
                                         ELSE sign}
                     /\ \A i \in 63..(7 * n - 1) : (i \in number) = sign]_vars

\* An unsigned GetValue has just decoded ten octets that begin with 0x81
\* into a value with bit 63 and lower bits set.
NoPayloadBitDroppedReached ==
    /\ last.op = "GetValue" /\ last.type = "varuint" /\ last.status = "ok"
    /\ last.n = 10 /\ last.offset = 0 /\ StorageOf(1)[1] = 129
    /\ 63 \in last.bits /\ 0 \in last.bits

\* C30: a sequence of ten octets that a GetValue inside the storage
\* decodes is the one SetValue writes for the value decoded: the value
\* has the encoded size 10, and writing it at the same offset leaves
\* every octet of the storage as it is.
TenOctetsCanonical ==
    [][(/\ last'.op = "GetValue" /\ last'.type \in {"varuint", "varint"}
        /\ last'.status = "ok" /\ last'.n = 10
        /\ InCap(last'.offset, CapOf(1))) =>
         LET again == IF last'.type = "varuint"
                      THEN SetValueVarUint(StorageOf(1), CapOf(1),
                                           last'.bits, last'.offset, 0)
                      ELSE SetValueVarInt(StorageOf(1), CapOf(1),
                                          last'.bits, last'.offset, 0)
         IN  /\ again.status = "ok" /\ again.n = 10
             /\ again.bytes = StorageOf(1)]_vars

\* A signed GetValue has just decoded ten octets that begin with 0xFF
\* into -1.
TenOctetsCanonicalReached ==
    /\ last.op = "GetValue" /\ last.type = "varint" /\ last.status = "ok"
    /\ last.n = 10 /\ last.offset = 0 /\ StorageOf(1)[1] = 255
    /\ last.bits = AllOnes64

====
